---- MODULE Spec2Model ----
(***************************************************************************)
(* A model of the inference pipeline of financial-stress-prediction:       *)
(* app/preprocessing.py (the feature normalizer), app/predictor.py (the    *)
(* predictor facade), app/models.py (the request schema) and the startup   *)
(* and the handlers of app/main.py.                                        *)
(*                                                                         *)
(* Values.  A DataFrame cell is one of                                     *)
(*   Nan           a missing value (Python None or numpy nan: pd.isna),    *)
(*   Num(n)        a number; Rat(n, d) the number n/d, kept reduced,       *)
(*   Str(s)        a Python str, s the sequence of its characters.         *)
(* Floating point numbers are modelled by exact rationals.                 *)
(***************************************************************************)
EXTENDS Integers, Sequences, FiniteSets, TLC

VARIABLES
    bundle,          \* the artifact fields held by the predictor
    loaded,          \* FinancialStressPredictor._loaded
    op,              \* the operation that produced the current state
    age_in,          \* argument of the last convert_credit_age call
    age_out,         \* its return value
    data_frame,      \* DataFrame given to FinancialStressPredictor.preprocess
    df_age,          \* result of preprocess_credit_age
    df_neg,          \* result of fix_negative_values
    df_fill,         \* result of fill_missing_values
    processed_data,  \* result of preprocess: the projected frame, or the error
    request,         \* body of the last /predict request
    response,        \* the HTTP response to it
    handed,          \* what preprocessor.transform was called with, if it was
    predictor,       \* the global predictor of app/main.py: None or the object
    lifecycle,       \* the facade: "Unloaded", "Loading", "Ready" or "Failed"
    serving,         \* whether the application is answering requests
    model_file,      \* what the load found at model_path
    workers,         \* body of the last /predict_batch request
    batch_response,  \* the HTTP response to it
    health,          \* the last answer of /health
    returned,        \* what the last call made on the predictor itself returned
    calls,           \* the prediction calls in progress on the predictor
    download         \* a call of download_model: its position, and the disk

vars == <<bundle, loaded, op, age_in, age_out, data_frame, df_age, df_neg, df_fill,
          processed_data, request, response, handed, predictor, lifecycle,
          serving, model_file, workers, batch_response, health, returned,
          calls, download>>

----------------------------------------------------------------------------
(* Bounds of the model *)

\* longest credit-age string explored, in tokens of AgeTokens
MaxTokens == 5
\* most rows of a DataFrame given to preprocess
MaxBatch == 2
\* most fields in which a generated record differs from the example record
MaxVaried == 1

----------------------------------------------------------------------------
(* Cell values *)

Nan == [k |-> "nan"]

Num(n) == [k |-> "num", n |-> n, d |-> 1]

Str(s) == [k |-> "str", s |-> s]

RECURSIVE Gcd(_, _)
Gcd(a, b) == IF b = 0 THEN a ELSE Gcd(b, a % b)

Abs(n) == IF n < 0 THEN -n ELSE n

\* the number n/d (d > 0), reduced
Rat(n, d) ==
    LET g == Gcd(Abs(n), d)
    IN  IF n = 0 THEN [k |-> "num", n |-> 0, d |-> 1]
        ELSE [k |-> "num", n |-> n \div g, d |-> d \div g]

\* pd.isna on a scalar
isna(v) == v.k = "nan"

IsNum(v) == v.k = "num"

IsStr(v) == v.k = "str"

----------------------------------------------------------------------------
(* Python str operations used by convert_credit_age *)

StartsWith(s, p) == Len(s) >= Len(p) /\ SubSeq(s, 1, Len(p)) = p

\* s.replace(old, ''): every non-overlapping occurrence of old, left to right
RECURSIVE str_remove(_, _)
str_remove(s, old) ==
    IF s = <<>> THEN <<>>
    ELSE IF StartsWith(s, old)
         THEN str_remove(SubSeq(s, Len(old) + 1, Len(s)), old)
         ELSE <<Head(s)>> \o str_remove(Tail(s), old)

\* s.split(sep) for a one-character sep: the list of the pieces between the
\* separators, empty pieces kept
RECURSIVE str_split(_, _)
str_split(s, sep) ==
    LET hits == {i \in 1..Len(s) : s[i] = sep}
    IN  IF hits = {} THEN <<s>>
        ELSE LET i == CHOOSE j \in hits : \A h \in hits : j <= h
             IN  <<SubSeq(s, 1, i - 1)>> \o str_split(SubSeq(s, i + 1, Len(s)), sep)

\* the decimal digits int() takes: the ASCII ones and those of other scripts,
\* of which ARABIC-INDIC DIGIT THREE stands here, the one character written
\* by its code point "U+0663"
AsciiDigits == {"0", "1", "2", "3", "4", "5", "6", "7", "8", "9"}

Digits == AsciiDigits \cup {"U+0663"}

DigitVal(c) ==
    CASE c = "0" -> 0 [] c = "1" -> 1 [] c = "2" -> 2 [] c = "3" -> 3
      [] c = "4" -> 4 [] c = "5" -> 5 [] c = "6" -> 6 [] c = "7" -> 7
      [] c = "8" -> 8 [] c = "9" -> 9 [] c = "U+0663" -> 3

IsDigits(s) == Len(s) > 0 /\ \A i \in 1..Len(s) : s[i] \in Digits

RECURSIVE DigitsValue(_)
DigitsValue(s) ==
    IF s = <<>> THEN 0
    ELSE 10 * DigitsValue(SubSeq(s, 1, Len(s) - 1)) + DigitVal(s[Len(s)])

\* the white space int() skips around its literal, which is also what
\* pydantic's number parsing trims: the ASCII ones (U+000B, the vertical tab,
\* written by its code point) and those outside ASCII, each one character
\* written by its code point.  (str.strip() removes U+001C..U+001F as well;
\* int() does not.)
Whitespace ==
    { " ", "\t", "\n", "\r", "\f", "U+000B", "U+0085", "U+00A0", "U+1680",
      "U+2000", "U+2001", "U+2002", "U+2003", "U+2004", "U+2005", "U+2006",
      "U+2007", "U+2008", "U+2009", "U+200A", "U+2028", "U+2029", "U+202F",
      "U+205F", "U+3000" }

\* s without the white space at its two ends
RECURSIVE strip_space(_)
strip_space(s) ==
    IF s = <<>> THEN s
    ELSE IF Head(s) \in Whitespace THEN strip_space(Tail(s))
    ELSE IF s[Len(s)] \in Whitespace THEN strip_space(SubSeq(s, 1, Len(s) - 1))
    ELSE s

\* digits, single underscores allowed between two of them
IsDigitGroups(s) ==
    /\ Len(s) > 0
    /\ \A i \in 1..Len(s) : s[i] \in Digits \cup {"_"}
    /\ s[1] # "_" /\ s[Len(s)] # "_"
    /\ \A i \in 1..(Len(s) - 1) : ~(s[i] = "_" /\ s[i + 1] = "_")

\* int() on a str without white space around it: an optional sign and
\* decimal digits with single underscores allowed between them; anything
\* else raises ValueError
int_stripped(t) ==
    LET signed == Len(t) > 0 /\ t[1] \in {"+", "-"}
        body   == IF signed THEN Tail(t) ELSE t
    IN  IF IsDigitGroups(body)
        THEN [ok |-> TRUE,
              v  |-> CHOOSE n \in
                       { IF signed /\ t[1] = "-" THEN -DigitsValue(digits)
                         ELSE DigitsValue(digits) :
                           digits \in {SelectSeq(body, LAMBDA c : c # "_")} } : TRUE]
        ELSE [ok |-> FALSE, v |-> 0]

\* int(s) on a str: the white space around it is stripped first
py_int(s) == CHOOSE out \in { int_stripped(t) : t \in {strip_space(s)} } : TRUE

Suffix_y == <<" ", "y", ".">>

Suffix_m == <<" ", "m", ".">>

\* years * 12 + months of the normal conversion
credit_age_total(years, months) == years * 12 + months

\* a slip: the two parts taken in the wrong order
convert_credit_age_swapped(x) ==
    IF isna(x) THEN Nan
    ELSE IF ~IsStr(x) THEN Nan
    ELSE CHOOSE out \in
           { IF Len(parts) < 2 THEN Nan
             ELSE CHOOSE months \in
                    { IF ~years.ok \/ ~rest.ok THEN Nan
                      ELSE Num(credit_age_total(rest.v, years.v)) :
                        years \in {py_int(parts[1])}, rest \in {py_int(parts[2])} } : TRUE :
               parts \in {str_split(str_remove(str_remove(x.s, Suffix_y), Suffix_m), " ")} } : TRUE

\* convert_credit_age(x): nan for a missing x; otherwise the two first pieces of
\* the string, ' y.' and ' m.' removed and split at the spaces, as integers;
\* any exception (no str methods, fewer than two pieces, a piece int() rejects)
\* gives nan
convert_credit_age(x) ==
    IF isna(x) THEN Nan
    ELSE IF ~IsStr(x) THEN Nan
    ELSE CHOOSE out \in
           { IF Len(parts) < 2 THEN Nan
             ELSE CHOOSE months \in
                    { IF ~years.ok THEN Nan
                      ELSE IF ~rest.ok THEN Nan
                      ELSE Num(credit_age_total(years.v, rest.v)) :
                        years \in {py_int(parts[1])}, rest \in {py_int(parts[2])} } : TRUE :
               parts \in {str_split(str_remove(str_remove(x.s, Suffix_y), Suffix_m), " ")} } : TRUE

----------------------------------------------------------------------------
(* The request schema: WorkerFeatures of app/models.py *)

\* the fields of WorkerFeatures, in declaration order (the order of model_dump)
WorkerFeatureFields ==
    << "worker_id",
       "survey_month",
       "worker_age",
       "job_sector",
       "estimated_annual_income",
       "monthly_gig_income",
       "num_savings_accounts",
       "num_credit_cards",
       "avg_credit_interest",
       "num_active_loans",
       "avg_loan_delay_days",
       "missed_payment_events",
       "recent_credit_checks",
       "current_total_liability",
       "credit_utilization_rate",
       "credit_age_months",
       "min_payment_flag",
       "monthly_investments",
       "spending_behavior",
       "end_of_month_balance" >>

\* the declared type of a field: Optional[str], Optional[float], Optional[int]
FieldType(f) ==
    CASE f = "worker_id" -> "str"
      [] f = "survey_month" -> "str"
      [] f = "worker_age" -> "float"
      [] f = "job_sector" -> "str"
      [] f = "estimated_annual_income" -> "float"
      [] f = "monthly_gig_income" -> "float"
      [] f = "num_savings_accounts" -> "int"
      [] f = "num_credit_cards" -> "int"
      [] f = "avg_credit_interest" -> "float"
      [] f = "num_active_loans" -> "int"
      [] f = "avg_loan_delay_days" -> "float"
      [] f = "missed_payment_events" -> "int"
      [] f = "recent_credit_checks" -> "int"
      [] f = "current_total_liability" -> "float"
      [] f = "credit_utilization_rate" -> "float"
      [] f = "credit_age_months" -> "str"
      [] f = "min_payment_flag" -> "str"
      [] f = "monthly_investments" -> "float"
      [] f = "spending_behavior" -> "str"
      [] f = "end_of_month_balance" -> "float"

\* the fields declared with a lower limit (Field(..., ge=...)), and the limit
FieldsWithGe ==
    { "worker_age", "estimated_annual_income", "monthly_gig_income",
      "num_savings_accounts", "num_credit_cards", "avg_credit_interest",
      "num_active_loans", "avg_loan_delay_days", "missed_payment_events",
      "recent_credit_checks", "current_total_liability",
      "credit_utilization_rate", "monthly_investments",
      "end_of_month_balance" }

FieldGe(f) == IF f = "worker_age" THEN 14 ELSE 0

\* the fields declared with an upper limit (Field(..., le=...)), and the limit
FieldsWithLe ==
    { "worker_age", "avg_credit_interest", "credit_utilization_rate" }

FieldLe(f) == IF f = "worker_age" THEN 120 ELSE 100

\* the example record of the schema (json_schema_extra)
ExampleValue(f) ==
    CASE f = "worker_id" -> Str(<<"a", "b", "c", "1", "2", "3">>)
      [] f = "survey_month" -> Str(<<"J", "u", "n", "e">>)
      [] f = "worker_age" -> Rat(28, 1)
      [] f = "job_sector" -> Str(<<"W", "r", "i", "t", "e", "r">>)
      [] f = "estimated_annual_income" -> Rat(7281029, 100)
      [] f = "monthly_gig_income" -> Rat(586598, 100)
      [] f = "num_savings_accounts" -> Rat(4, 1)
      [] f = "num_credit_cards" -> Rat(4, 1)
      [] f = "avg_credit_interest" -> Rat(17, 1)
      [] f = "num_active_loans" -> Rat(3, 1)
      [] f = "avg_loan_delay_days" -> Rat(15, 1)
      [] f = "missed_payment_events" -> Rat(12, 1)
      [] f = "recent_credit_checks" -> Rat(3, 1)
      [] f = "current_total_liability" -> Rat(144426, 100)
      [] f = "credit_utilization_rate" -> Rat(3211, 100)
      [] f = "credit_age_months" ->
           Str(<<"2", "0", " ", "y", ".", " ", "7", " ", "m", ".">>)
      [] f = "min_payment_flag" -> Str(<<"N", "o">>)
      [] f = "monthly_investments" -> Rat(11189, 100)
      [] f = "spending_behavior" ->
           Str(<<"L", "a", "r", "g", "e", " ", "e", "x", "p", "e", "n", "s",
                 "e", "s", ",", " ", "l", "a", "r", "g", "e", " ", "p", "a",
                 "y", "m", "e", "n", "t", "s">>)
      [] f = "end_of_month_balance" -> Rat(55777, 100)

ExampleRecord == [f \in {WorkerFeatureFields[i] : i \in 1..Len(WorkerFeatureFields)}
                     |-> ExampleValue(f)]

\* a record with every field left at its default, None
EmptyRecord == [f \in DOMAIN ExampleRecord |-> Nan]

RatLess(a, b) == a.n * b.d < b.n * a.d

RatAdd(a, b) == Rat(a.n * b.d + b.n * a.d, a.d * b.d)

\* float('nan') in a request body, which pydantic tells from None
FloatNan == [k |-> "nan", float |-> TRUE]

\* float('inf') and float('-inf')
Inf(neg) == [k |-> "inf", neg |-> neg]

IsInf(v) == v.k = "inf"

\* 10^n
RECURSIVE Pow10(_)
Pow10(n) == IF n = 0 THEN 1 ELSE 10 * Pow10(n - 1)

\* the position of the first character of s that is in cs, Len(s) + 1 when
\* it has none
RECURSIVE FirstAt(_, _)
FirstAt(s, cs) == IF s = <<>> \/ Head(s) \in cs THEN 1 ELSE 1 + FirstAt(Tail(s), cs)

NotParsed == [ok |-> FALSE, v |-> Nan]

\* pydantic-core's strip_underscores: the str without its underscores, when
\* it has some, none at an end and no two in a row
strip_underscores(s) ==
    IF /\ \E i \in 1..Len(s) : s[i] = "_"
       /\ s[1] # "_" /\ s[Len(s)] # "_"
       /\ \A i \in 1..(Len(s) - 1) : ~(s[i] = "_" /\ s[i + 1] = "_")
    THEN [ok |-> TRUE, s |-> SelectSeq(s, LAMBDA c : c # "_")]
    ELSE [ok |-> FALSE, s |-> s]

\* Rust's str::parse::<i64>: an optional sign and ASCII digits
parse_i64(s) ==
    LET signed == Len(s) > 0 /\ s[1] \in {"+", "-"}
        body   == IF signed THEN Tail(s) ELSE s
    IN  IF Len(body) > 0 /\ \A i \in 1..Len(body) : body[i] \in AsciiDigits
        THEN [ok |-> TRUE,
              v  |-> IF signed /\ s[1] = "-" THEN Num(-DigitsValue(body))
                     ELSE Num(DigitsValue(body))]
        ELSE NotParsed

\* pydantic-core's strip_leading_zeros: a str that starts with a digit
\* 1..9 or a minus sign as it is; one that starts with 0 from the first
\* character on that is neither 0 nor underscore, when that is a digit or a
\* minus sign, from the 0 or underscore before it when it is a point, and
\* its last character when there is none
strip_leading_zeros(s) ==
    IF s = <<>> THEN [ok |-> FALSE, s |-> s]
    ELSE IF s[1] \in (AsciiDigits \ {"0"}) \cup {"-"} THEN [ok |-> TRUE, s |-> s]
    ELSE IF s[1] # "0" THEN [ok |-> FALSE, s |-> s]
    ELSE LET i == 1 + FirstAt(Tail(s), {s[j] : j \in 1..Len(s)} \ {"0", "_"})
         IN  IF i > Len(s) THEN [ok |-> TRUE, s |-> <<s[Len(s)]>>]
             ELSE IF s[i] \in (AsciiDigits \ {"0"}) \cup {"-"}
             THEN [ok |-> TRUE, s |-> SubSeq(s, i, Len(s))]
             ELSE IF s[i] = "." THEN [ok |-> TRUE, s |-> SubSeq(s, i - 1, Len(s))]
             ELSE [ok |-> FALSE, s |-> s]

\* s without a decimal point followed by zeros only, at least one
strip_decimal_zeros(s) ==
    LET i == FirstAt(s, {"."})
    IN  IF i < Len(s) /\ \A j \in (i + 1)..Len(s) : s[j] = "0"
        THEN SubSeq(s, 1, i - 1)
        ELSE s

\* the digits of clean_int_str: body is the str without its sign, sign the
\* minus sign taken off or nothing, len_before the length of the whole str
clean_digits(body, sign, len_before) ==
    CHOOSE out \in
      { IF ~z.ok THEN [ok |-> FALSE, s |-> body]
        ELSE CHOOSE r \in
               { IF strip_underscores(c).ok
                 THEN [ok |-> TRUE, s |-> sign \o strip_underscores(c).s]
                 ELSE [ok |-> Len(c) # len_before, s |-> sign \o c] :
                   c \in {strip_decimal_zeros(z.s)} } : TRUE :
          z \in {strip_leading_zeros(body)} } : TRUE

\* pydantic-core's clean_int_str on a trimmed str t: a leading plus sign
\* taken off, then a leading minus sign set aside (no second sign may
\* follow either), the leading zeros, a decimal point with zeros only after
\* it and the underscores removed, the minus sign put back; nothing when
\* there was nothing to remove
clean_int_str(t) ==
    LET plus  == t # <<>> /\ t[1] = "+"
        u     == IF plus THEN Tail(t) ELSE t
        minus == u # <<>> /\ u[1] = "-"
        body  == IF minus THEN Tail(u) ELSE u
    IN  IF plus /\ minus THEN [ok |-> FALSE, s |-> t]
        ELSE IF minus /\ body # <<>> /\ body[1] \in {"+", "-"}
        THEN [ok |-> FALSE, s |-> t]
        ELSE clean_digits(body, IF minus THEN <<"-">> ELSE <<>>, Len(t))

\* the integer pydantic-core reads from a cleaned str: an optional minus
\* sign, then 0 alone or ASCII digits that do not start with 0
parse_number_int(s) ==
    LET minus == Len(s) > 0 /\ s[1] = "-"
        body  == IF minus THEN Tail(s) ELSE s
    IN  IF /\ Len(body) > 0
           /\ \A i \in 1..Len(body) : body[i] \in AsciiDigits
           /\ body[1] = "0" => Len(body) = 1
        THEN [ok |-> TRUE,
              v  |-> IF minus THEN Num(-DigitsValue(body)) ELSE Num(DigitsValue(body))]
        ELSE NotParsed

\* pydantic-core's str_as_int: the trimmed str parsed as it is, or else as
\* clean_int_str leaves it, which is then refused when zeros still lead it
str_as_int(s) ==
    CHOOSE out \in
      { IF parse_i64(t).ok THEN parse_i64(t)
        ELSE IF clean_int_str(t).ok THEN parse_number_int(clean_int_str(t).s)
        ELSE NotParsed : t \in {strip_space(s)} } : TRUE

\* the letters of inf, infinity and nan in lower case
Lower(c) ==
    CASE c = "I" -> "i" [] c = "N" -> "n" [] c = "F" -> "f" [] c = "T" -> "t"
      [] c = "Y" -> "y" [] c = "A" -> "a" [] OTHER -> c

\* the decimal mantissa digits* [. digits*], at least one digit, times ten to
\* the power exp, as an exact number
decimal_value(mantissa, exp) ==
    LET dot    == FirstAt(mantissa, {"."})
        whole  == SubSeq(mantissa, 1, dot - 1)
        frac   == SubSeq(mantissa, dot + 1, Len(mantissa))
        shift  == exp - Len(frac)
    IN  IF /\ Len(whole) + Len(frac) > 0
           /\ \A i \in 1..Len(whole) : whole[i] \in AsciiDigits
           /\ \A i \in 1..Len(frac) : frac[i] \in AsciiDigits
        THEN [ok |-> TRUE,
              v  |-> IF shift >= 0 THEN Num(DigitsValue(whole \o frac) * Pow10(shift))
                     ELSE Rat(DigitsValue(whole \o frac), Pow10(-shift))]
        ELSE NotParsed

\* Rust's str::parse::<f64>: an optional sign, then inf, infinity or nan in
\* any case, or a decimal number with an optional exponent e[+-]digits
parse_f64(s) ==
    LET signed == Len(s) > 0 /\ s[1] \in {"+", "-"}
        neg    == signed /\ s[1] = "-"
        body   == IF signed THEN Tail(s) ELSE s
        word   == [i \in 1..Len(body) |-> Lower(body[i])]
        e      == FirstAt(body, {"e", "E"})
        exp    == parse_i64(SubSeq(body, e + 1, Len(body)))
    IN  IF word \in {<<"i", "n", "f">>, <<"i", "n", "f", "i", "n", "i", "t", "y">>}
        THEN [ok |-> TRUE, v |-> Inf(neg)]
        ELSE IF word = <<"n", "a", "n">> THEN [ok |-> TRUE, v |-> FloatNan]
        ELSE IF e <= Len(body) /\ ~exp.ok THEN NotParsed
        ELSE CHOOSE out \in
               { IF d.ok /\ neg THEN [ok |-> TRUE, v |-> Rat(-d.v.n, d.v.d)] ELSE d :
                   d \in {decimal_value(SubSeq(body, 1, e - 1),
                                        IF e <= Len(body) THEN exp.v.n ELSE 0)} } : TRUE

\* pydantic-core's str_as_float: the trimmed str parsed, or else the str
\* itself, untrimmed, without its underscores
str_as_float(s) ==
    CHOOSE out \in
      { IF r.ok THEN r
        ELSE IF strip_underscores(s).ok THEN parse_f64(strip_underscores(s).s)
        ELSE NotParsed : r \in {parse_f64(strip_space(s))} } : TRUE

\* the number pydantic's lax mode reads from a str given for a float or an
\* int field (numbers as exact rationals, within the integers the checker
\* holds)
str_number(type, s) == IF type = "int" THEN str_as_int(s) ELSE str_as_float(s)

\* the value a validated field holds: a str given for a float or an int
\* field is replaced by the number read from it
field_value(f, v) ==
    IF FieldType(f) \in {"float", "int"} /\ IsStr(v)
    THEN CHOOSE out \in
           { IF r.ok THEN r.v ELSE v : r \in {str_number(FieldType(f), v.s)} } : TRUE
    ELSE v

\* pydantic's validation of one field of WorkerFeatures: None passes and
\* float('nan') does not; a str field takes a str only, a float field a
\* number, an int field a whole number, both also a str that reads as one;
\* ge and le are checked on the number, and an infinite one is above every
\* limit or below every limit
field_valid(f, v) ==
    \/ v = Nan
    \/ /\ FieldType(f) = "str"
       /\ IsStr(v)
    \/ /\ FieldType(f) \in {"float", "int"}
       /\ \E x \in {field_value(f, v)} :
            \/ /\ IsNum(x)
               /\ FieldType(f) = "int" => x.d = 1
               /\ f \in FieldsWithGe => ~RatLess(x, Num(FieldGe(f)))
               /\ f \in FieldsWithLe => ~RatLess(Num(FieldLe(f)), x)
            \/ /\ IsInf(x)
               /\ FieldType(f) = "float"
               /\ f \in FieldsWithGe => ~x.neg
               /\ f \in FieldsWithLe => x.neg

\* the values the validation errors of rec report as their input
error_inputs(rec) == {rec[f] : f \in {g \in DOMAIN rec : ~field_valid(g, rec[g])}}

\* json.dumps(v, allow_nan=False) raises ValueError
not_json_compliant(v) == v = FloatNan \/ IsInf(v)

\* WorkerFeatures(**rec) validates
WorkerFeatures_valid(rec) == \A f \in DOMAIN rec : field_valid(f, rec[f])

\* the object WorkerFeatures(**rec) builds from a rec that validates
WorkerFeatures(rec) == [f \in DOMAIN rec |-> field_value(f, rec[f])]

\* the workers of the object BatchPredictionRequest(workers=recs) builds
BatchPredictionRequest(recs) == [i \in 1..Len(recs) |-> WorkerFeatures(recs[i])]

\* the values the validation errors of BatchPredictionRequest(workers=recs)
\* report: of a list over max_length the one error is too_long and its
\* input the list itself, every value of every record in it; otherwise the
\* inputs of the records' errors (of an empty list the error is too_short
\* and its input the empty list)
batch_error_inputs(recs) ==
    IF Len(recs) > 1000
    THEN UNION {{recs[i][f] : f \in DOMAIN recs[i]} : i \in 1..Len(recs)}
    ELSE UNION {error_inputs(recs[i]) : i \in 1..Len(recs)}

\* BatchPredictionRequest(workers=recs) validates: one to 1000 records,
\* each a WorkerFeatures
BatchPredictionRequest_valid(recs) ==
    /\ Len(recs) >= 1
    /\ Len(recs) <= 1000
    /\ \A i \in 1..Len(recs) : WorkerFeatures_valid(recs[i])

----------------------------------------------------------------------------
(* DataFrames: the column labels in order, and the rows, each a function   *)
(* from the column labels to cell values                                   *)

Range(q) == {q[i] : i \in 1..Len(q)}

RECURSIVE SeqWithout(_, _)
SeqWithout(q, x) ==
    IF q = <<>> THEN <<>>
    ELSE IF Head(q) = x THEN SeqWithout(Tail(q), x)
         ELSE <<Head(q)>> \o SeqWithout(Tail(q), x)

\* pd.DataFrame([]): no columns and no rows
EmptyFrame == [columns |-> <<>>, rows |-> <<>>]

\* pd.DataFrame(list of model_dump() dicts): the columns are the keys of the
\* dicts, and there are none when the list is empty
DataFrame(recs) ==
    IF recs = <<>> THEN EmptyFrame
    ELSE [columns |-> WorkerFeatureFields, rows |-> recs]

NRows(df) == Len(df.rows)

\* df.drop(col, axis=1), col a column of df
drop(df, col) ==
    [columns |-> SeqWithout(df.columns, col),
     rows    |-> [i \in 1..NRows(df) |->
                    [c \in (DOMAIN df.rows[i]) \ {col} |-> df.rows[i][c]]]]

\* df[col] = values: an existing column keeps its place, a new one goes last
assign(df, col, values) ==
    [columns |-> IF col \in Range(df.columns) THEN df.columns
                 ELSE Append(df.columns, col),
     rows    |-> [i \in 1..NRows(df) |->
                    [c \in (DOMAIN df.rows[i]) \cup {col} |->
                        IF c = col THEN values[i] ELSE df.rows[i][c]]]]

\* the outcome of a step that may raise
Ok(df) == [ok |-> TRUE, df |-> df]

KeyError(key) == [ok |-> FALSE, err |-> "KeyError", key |-> key]

\* a step that did not run
NotRun == [ok |-> FALSE, err |-> "not run"]

----------------------------------------------------------------------------
(* app/preprocessing.py *)

\* preprocess_credit_age: df['credit_age_months'] raises KeyError when the
\* frame has no such column; otherwise the converted column is assigned and
\* the string column dropped
preprocess_credit_age(df) ==
    IF "credit_age_months" \notin Range(df.columns)
    THEN KeyError("credit_age_months")
    ELSE Ok(drop(assign(df, "credit_age_months_numeric",
                        [i \in 1..NRows(df) |->
                            convert_credit_age(df.rows[i]["credit_age_months"])]),
                 "credit_age_months"))

\* a slip: clip(upper=0)
clip_upper_0(v) == IF IsNum(v) /\ v.n > 0 THEN Num(0) ELSE v

\* Series.clip(lower=0) on one cell: a number below 0 becomes 0, a missing
\* value stays missing
clip_lower_0(v) ==
    IF (IsNum(v) /\ v.n < 0) \/ (IsInf(v) /\ v.neg) THEN Num(0) ELSE v

\* the columns fix_negative_values clips
ClippedColumns == {"num_savings_accounts", "avg_loan_delay_days"}

\* a slip: every numeric cell clipped, not only the two designated columns
fix_negative_values_all(df) ==
    [df EXCEPT !.rows = [i \in 1..NRows(df) |->
        [c \in DOMAIN df.rows[i] |-> clip_lower_0(df.rows[i][c])]]]

\* fix_negative_values: the two columns, when present, clipped at 0
fix_negative_values(df) ==
    [df EXCEPT !.rows = [i \in 1..NRows(df) |->
        [c \in DOMAIN df.rows[i] |->
            IF c \in ClippedColumns THEN clip_lower_0(df.rows[i][c])
            ELSE df.rows[i][c]]]]

\* the non-missing cells of a column, in row order
RECURSIVE present_values(_, _, _)
present_values(df, col, i) ==
    IF i > NRows(df) THEN <<>>
    ELSE IF isna(df.rows[i][col]) THEN present_values(df, col, i + 1)
         ELSE <<df.rows[i][col]>> \o present_values(df, col, i + 1)

RECURSIVE RatSum(_)
RatSum(q) == IF q = <<>> THEN Num(0) ELSE RatAdd(Head(q), RatSum(Tail(q)))

\* a < b for two cells that are numbers or infinite
CellLess(a, b) ==
    IF IsInf(a) THEN a.neg /\ ~(IsInf(b) /\ b.neg)
    ELSE IF IsInf(b) THEN ~b.neg
    ELSE RatLess(a, b)

\* df[col].mean(): the mean of the non-missing cells, nan when there is
\* none; infinite when one of them is, nan when both infinities are there
series_mean(df, col) ==
    LET q == present_values(df, col, 1)
        infinite == {q[i] : i \in {j \in 1..Len(q) : IsInf(q[j])}}
        t == RatSum(q)
    IN  IF q = <<>> THEN Nan
        ELSE IF Cardinality(infinite) = 2 THEN Nan
        ELSE IF Cardinality(infinite) = 1 THEN CHOOSE x \in infinite : TRUE
        ELSE Rat(t.n, t.d * Len(q))

\* the j-th smallest of the values q (1-based)
kth_smallest(q, j) ==
    LET v == CHOOSE x \in Range(q) :
                /\ Cardinality({i \in 1..Len(q) : CellLess(q[i], x)}) < j
                /\ Cardinality({i \in 1..Len(q) : ~CellLess(x, q[i])}) >= j
    IN  v

\* (a + b) / 2
midpoint(a, b) ==
    IF IsInf(a) /\ IsInf(b) THEN (IF a = b THEN a ELSE Nan)
    ELSE IF IsInf(a) THEN a
    ELSE IF IsInf(b) THEN b
    ELSE Rat(RatAdd(a, b).n, RatAdd(a, b).d * 2)

\* df[col].median(): the middle non-missing cell, or the mean of the two
\* middle ones; nan when there is none
series_median(df, col) ==
    LET q == present_values(df, col, 1)
        n == Len(q)
    IN  IF n = 0 THEN Nan
        ELSE IF n % 2 = 1 THEN kth_smallest(q, (n + 1) \div 2)
        ELSE midpoint(kth_smallest(q, n \div 2), kth_smallest(q, n \div 2 + 1))

Unknown == <<"U", "n", "k", "n", "o", "w", "n">>

\* dict.get(key, default)
dict_get(d, key, default) == IF key \in DOMAIN d THEN d[key] ELSE default

any_null(df, col) == \E i \in 1..NRows(df) : isna(df.rows[i][col])

\* a slip: the value written to every cell of the column
fillna_all(df, col, value) ==
    [df EXCEPT !.rows = [i \in 1..NRows(df) |->
        [c \in DOMAIN df.rows[i] |-> IF c = col THEN value ELSE df.rows[i][c]]]]

\* df[col].fillna(value, inplace=True): value replaces every missing cell of
\* the column (the in-place fill of df[col] reaching df, as it does without
\* pandas' copy-on-write mode); filling with nan leaves the cells missing
fillna(df, col, value) ==
    [df EXCEPT !.rows = [i \in 1..NRows(df) |->
        [c \in DOMAIN df.rows[i] |->
            IF c = col /\ isna(df.rows[i][c]) THEN value ELSE df.rows[i][c]]]]

\* a slip: the two statistics the wrong way round
fill_value_swapped(df, col, train_medians, train_means, numerical_cols_outliers) ==
    IF col \in Range(numerical_cols_outliers)
    THEN dict_get(train_means, col, series_mean(df, col))
    ELSE dict_get(train_medians, col, series_median(df, col))

\* the value fill_missing_values fills a numerical column with
fill_value(df, col, train_medians, train_means, numerical_cols_outliers) ==
    IF col \in Range(numerical_cols_outliers)
    THEN dict_get(train_medians, col, series_median(df, col))
    ELSE dict_get(train_means, col, series_mean(df, col))

\* the loop of fill_missing_values over numerical_cols[i..]
RECURSIVE fill_numerical(_, _, _, _, _, _)
fill_numerical(df, numerical_cols, i, train_medians, train_means, numerical_cols_outliers) ==
    IF i > Len(numerical_cols) THEN df
    ELSE LET col == numerical_cols[i]
             nxt == IF col \in Range(df.columns) /\ any_null(df, col)
                    THEN fillna(df, col,
                                fill_value(df, col, train_medians, train_means,
                                           numerical_cols_outliers))
                    ELSE df
         IN  fill_numerical(nxt, numerical_cols, i + 1, train_medians,
                            train_means, numerical_cols_outliers)

\* a slip: a column with a missing cell set to 'Unknown' in every row
RECURSIVE fill_categorical_whole_column(_, _, _)
fill_categorical_whole_column(df, categorical_cols, i) ==
    IF i > Len(categorical_cols) THEN df
    ELSE LET col == categorical_cols[i]
             nxt == IF col \in Range(df.columns) /\ any_null(df, col)
                    THEN assign(df, col, [r \in 1..NRows(df) |-> Str(Unknown)])
                    ELSE df
         IN  fill_categorical_whole_column(nxt, categorical_cols, i + 1)

\* the loop of fill_missing_values over categorical_cols[i..]
RECURSIVE fill_categorical(_, _, _)
fill_categorical(df, categorical_cols, i) ==
    IF i > Len(categorical_cols) THEN df
    ELSE LET col == categorical_cols[i]
             nxt == IF col \in Range(df.columns) /\ any_null(df, col)
                    THEN fillna(df, col, Str(Unknown))
                    ELSE df
         IN  fill_categorical(nxt, categorical_cols, i + 1)

\* fill_missing_values: the numerical columns, then the categorical ones
fill_missing_values(df, numerical_cols, categorical_cols, train_medians, train_means, numerical_cols_outliers) ==
    fill_categorical(
        fill_numerical(df, numerical_cols, 1, train_medians, train_means,
                       numerical_cols_outliers),
        categorical_cols, 1)

\* the steps of preprocess_input_data, each step's outcome kept
preprocess_input_steps(data, train_medians, train_means, numerical_cols_outliers, numerical_features, categorical_features) ==
    LET a == preprocess_credit_age(data)
        n == IF a.ok THEN Ok(fix_negative_values(a.df)) ELSE NotRun
        f == IF n.ok
             THEN Ok(fill_missing_values(n.df, numerical_features,
                                         categorical_features, train_medians,
                                         train_means, numerical_cols_outliers))
             ELSE NotRun
    IN  [age |-> a, neg |-> n, fill |-> f]

\* preprocess_input_data: what it returns, or the exception it raises
preprocess_input_data(data, train_medians, train_means, numerical_cols_outliers, numerical_features, categorical_features) ==
    LET t == preprocess_input_steps(data, train_medians, train_means,
                                    numerical_cols_outliers, numerical_features,
                                    categorical_features)
    IN  IF t.age.ok THEN t.fill ELSE t.age

----------------------------------------------------------------------------
(* app/predictor.py: FinancialStressPredictor.preprocess *)

\* a slip: the labels that are not columns skipped instead of raising
select_columns_lenient(df, names) ==
    LET kept == SelectSeq(names, LAMBDA c : c \in Range(df.columns))
    IN  Ok([columns |-> kept,
            rows    |-> [i \in 1..NRows(df) |->
                           [c \in Range(kept) |-> df.rows[i][c]]]])

\* df[names], names a list of labels: KeyError when a label is no column,
\* otherwise the columns named, in the order of the list
select_columns(df, names) ==
    IF \E c \in Range(names) : c \notin Range(df.columns)
    THEN KeyError(CHOOSE c \in Range(names) : c \notin Range(df.columns))
    ELSE Ok([columns |-> names,
             rows    |-> [i \in 1..NRows(df) |->
                            [c \in Range(names) |-> df.rows[i][c]]]])

\* a slip: worker_id left in the frame
without_worker_id_kept(df) == df

\* the frame preprocess works on: worker_id dropped when present
without_worker_id(df) ==
    IF "worker_id" \in Range(df.columns) THEN drop(df, "worker_id") ELSE df

\* preprocess(self, data): the steps' outcomes
preprocess_steps(b, df) ==
    preprocess_input_steps(without_worker_id(df), b.train_medians, b.train_means,
                           b.numerical_cols_outliers, b.numerical_features,
                           b.categorical_features)

\* preprocess(self, data): the processed frame, or the exception raised
preprocess(b, df) ==
    LET p == preprocess_input_data(without_worker_id(df), b.train_medians,
                                   b.train_means, b.numerical_cols_outliers,
                                   b.numerical_features, b.categorical_features)
    IN  IF p.ok THEN select_columns(p.df, b.feature_names) ELSE p

----------------------------------------------------------------------------
(* The inference engine.  The fitted transformer, the classifier and the    *)
(* label encoder are the objects scripts/train_model.py fits and saves: a   *)
(* ColumnTransformer of a StandardScaler over the numerical features and a  *)
(* OneHotEncoder(handle_unknown='ignore', drop='first') over the            *)
(* categorical ones, a RandomForestClassifier, and a LabelEncoder.          *)

RatSub(a, b) == Rat(a.n * b.d - b.n * a.d, a.d * b.d)

\* a / b, b > 0
RatDiv(a, b) == Rat(a.n * b.d, a.d * b.n)

ValueError(what) == [ok |-> FALSE, err |-> "ValueError", key |-> what]

RuntimeError(what) == [ok |-> FALSE, err |-> "RuntimeError", key |-> what]

\* StandardScaler.transform on one cell: (x - mean_) / scale_; nan stays nan
scale_cell(pre, col, v) ==
    IF isna(v) THEN Nan ELSE RatDiv(RatSub(v, pre.mean_[col]), pre.scale_[col])

\* OneHotEncoder.transform on one cell, the first category dropped: the
\* indicators of the other categories; all 0 for the first category and, with
\* handle_unknown='ignore', for a value that is no category
onehot_cell(pre, col, v) ==
    [j \in 1..(Len(pre.categories_[col]) - 1) |->
        IF v = pre.categories_[col][j + 1] THEN Num(1) ELSE Num(0)]

RECURSIVE Flatten(_)
Flatten(qq) == IF qq = <<>> THEN <<>> ELSE Head(qq) \o Flatten(Tail(qq))

\* one row of the transformed matrix: the scaled numerical columns, then the
\* indicator columns
transform_row(pre, row) ==
    [i \in 1..Len(pre.num) |-> scale_cell(pre, pre.num[i], row[pre.num[i]])]
        \o Flatten([i \in 1..Len(pre.cat) |->
                       onehot_cell(pre, pre.cat[i], row[pre.cat[i]])])

\* preprocessor.transform(processed_df): the ColumnTransformer takes its
\* columns by name and raises ValueError when one is not in the frame; the
\* StandardScaler raises ValueError for an infinite cell
transform(pre, df) ==
    IF \E c \in Range(pre.num) \cup Range(pre.cat) : c \notin Range(df.columns)
    THEN ValueError("columns are missing")
    ELSE IF \E i \in 1..NRows(df) : \E c \in Range(pre.num) : IsInf(df.rows[i][c])
    THEN ValueError("Input X contains infinity")
    ELSE [ok |-> TRUE,
          X  |-> [i \in 1..NRows(df) |-> transform_row(pre, df.rows[i])]]

\* the classifier's probability estimate for one row of the matrix: a split
\* of one column at a threshold, each side with its class probabilities; a
\* missing value goes to the side the fitted forest sends it to
proba_row(model, x) ==
    LET v == x[model.feature]
    IN  IF isna(v) THEN (IF model.missing = "high" THEN model.high ELSE model.low)
        ELSE IF RatLess(model.threshold, v) THEN model.high
        ELSE model.low

\* model.predict_proba(X): a forest that does not take missing values raises
\* ValueError for a matrix holding one
predict_proba(model, X) ==
    IF model.missing = "raise"
       /\ \E i \in 1..Len(X) : \E j \in 1..Len(X[i]) : isna(X[i][j])
    THEN ValueError("Input X contains NaN")
    ELSE [ok |-> TRUE, P |-> [i \in 1..Len(X) |-> proba_row(model, X[i])]]

\* numpy argmax, 0-based: the first index of the largest entry
argmax(probs) ==
    (CHOOSE j \in 1..Len(probs) :
        /\ \A k \in 1..Len(probs) : ~RatLess(probs[j], probs[k])
        /\ \A k \in 1..(j - 1) : RatLess(probs[k], probs[j])) - 1

\* model.predict(X): for each row the class of the largest probability; the
\* classes of the classifier are the encoded labels 0, 1, ...
predict(model, X) ==
    LET pp == predict_proba(model, X)
    IN  IF pp.ok THEN [ok |-> TRUE, y |-> [i \in 1..Len(X) |-> argmax(pp.P[i])]]
        ELSE pp

\* a slip: the label one place further on in classes_
inverse_transform_shifted(label_encoder, y) ==
    label_encoder.classes_[((y + 1) % Len(label_encoder.classes_)) + 1]

\* label_encoder.inverse_transform on one encoded label: classes_[y]
inverse_transform(label_encoder, y) == label_encoder.classes_[y + 1]

\* zip(a, b): pairs up to the shorter length
zip(a, b) ==
    [i \in 1..(IF Len(a) < Len(b) THEN Len(a) ELSE Len(b)) |-> <<a[i], b[i]>>]

\* the place of pair i of q when the pairs are put in descending order of
\* their second components
DescendingPlace(q, i) ==
    1 + Cardinality({k \in 1..Len(q) :
                        \/ RatLess(q[i][2], q[k][2])
                        \/ (q[k][2] = q[i][2] /\ k < i)})

\* a slip: the entries in descending order of probability
prob_dict_sorted(label_encoder, probs) ==
    LET q == zip(label_encoder.classes_, probs)
    IN  [p \in 1..Len(q) |-> q[CHOOSE i \in 1..Len(q) : DescendingPlace(q, i) = p]]

\* the probability dictionary: a dict keeps its entries in insertion order,
\* here the order of zip(label_encoder.classes_, probabilities)
prob_dict(label_encoder, probs) == zip(label_encoder.classes_, probs)

\* the keys of a dictionary, in its order
keys(d) == [i \in 1..Len(d) |-> d[i][1]]

Prediction(predicted_class, probabilities) ==
    [ok |-> TRUE, predicted_class |-> predicted_class, prob_dict |-> probabilities]

----------------------------------------------------------------------------
(* app/predictor.py: loading and the prediction operations *)

\* the value of a field before it is loaded
None == [k |-> "none"]

\* the keys load_model reads from the artifacts, in the order it reads them
ArtifactKeys ==
    << "model", "preprocessor", "label_encoder", "train_medians", "train_means",
       "numerical_cols_outliers", "numerical_features", "categorical_features",
       "feature_names" >>

\* __init__: every field None (and _loaded False) before load_model is called
BlankFields == [k \in Range(ArtifactKeys) |-> None]

\* what Path.exists and joblib.load find at model_path
Absent == [file |-> "absent"]

Corrupt == [file |-> "corrupt"]

\* model_path before any load has looked at it
NotRead == [file |-> "not read"]

Pickled(artifacts) == [file |-> "pickle", artifacts |-> artifacts]

\* the assignments self.<key> = artifacts['<key>'] from the i-th on: the
\* first key the artifacts lack raises KeyError, the fields before it assigned
RECURSIVE assign_artifacts(_, _, _)
assign_artifacts(fields, artifacts, i) ==
    IF i > Len(ArtifactKeys) THEN [fields |-> fields, ok |-> TRUE]
    ELSE IF ArtifactKeys[i] \notin DOMAIN artifacts
         THEN [fields |-> fields, ok |-> FALSE, err |-> "KeyError",
               key |-> ArtifactKeys[i]]
         ELSE assign_artifacts([fields EXCEPT ![ArtifactKeys[i]] = artifacts[ArtifactKeys[i]]],
                               artifacts, i + 1)

\* a slip: _loaded set as soon as the file has been read
load_model_eager(fields, was_loaded, file) ==
    IF file = Absent
    THEN [fields |-> fields, loaded |-> was_loaded, ok |-> FALSE,
          err |-> "FileNotFoundError"]
    ELSE IF file = Corrupt
    THEN [fields |-> fields, loaded |-> was_loaded, ok |-> FALSE,
          err |-> "UnpicklingError"]
    ELSE LET a == assign_artifacts(fields, file.artifacts, 1)
         IN  [fields |-> a.fields, loaded |-> TRUE, ok |-> a.ok,
              err |-> IF a.ok THEN "" ELSE a.err]

\* load_model on a predictor with the given fields and _loaded: the fields
\* and _loaded it leaves, and whether it returned or raised
load_model(fields, was_loaded, file) ==
    IF file = Absent
    THEN [fields |-> fields, loaded |-> was_loaded, ok |-> FALSE,
          err |-> "FileNotFoundError"]
    ELSE IF file = Corrupt
    THEN [fields |-> fields, loaded |-> was_loaded, ok |-> FALSE,
          err |-> "UnpicklingError"]
    ELSE LET a == assign_artifacts(fields, file.artifacts, 1)
         IN  [fields |-> a.fields,
              loaded |-> IF a.ok THEN TRUE ELSE was_loaded,
              ok     |-> a.ok,
              err    |-> IF a.ok THEN "" ELSE a.err]

\* FinancialStressPredictor(): __init__ blanks the fields and calls load_model
FinancialStressPredictor(file) == load_model(BlankFields, FALSE, file)

\* is_loaded
is_loaded(was_loaded) == was_loaded

\* In the operators below a value used more than once is bound by a
\* quantifier over a one-element set, {f(v) : v \in {e}}, so that it is
\* computed once.

\* the transformer and the classifier applied to the frame df: the encoded
\* predictions y and the probabilities P, or the exception raised
classify(b, t) ==
    IF ~t.ok THEN t
    ELSE LET y  == predict(b.model, t.X)
             pp == predict_proba(b.model, t.X)
         IN  IF ~y.ok THEN y ELSE [ok |-> TRUE, y |-> y.y, P |-> pp.P]

infer(b, df) ==
    CHOOSE e \in {classify(b, t) : t \in {transform(b.preprocessor, df)}} : TRUE

\* predict_single from the call of preprocess on, processed what preprocess
\* returned or raised
single_outcome(b, processed) ==
    IF ~processed.ok
    THEN [processed |-> processed, handed |-> NotRun, result |-> processed]
    ELSE CHOOSE out \in
           { [processed |-> processed,
              handed    |-> processed,
              result    |->
                  IF ~e.ok THEN e
                  ELSE Prediction(inverse_transform(b.label_encoder, e.y[1]),
                                  prob_dict(b.label_encoder, e.P[1]))] :
               e \in {infer(b, processed.df)} } : TRUE

\* predict_single on a predictor with fields b and _loaded ld: the frame
\* preprocess returned, the frame the transformer was called with, and the
\* value returned or the exception raised
predict_single_steps(b, ld, features) ==
    IF ~ld
    THEN [processed |-> NotRun, handed |-> NotRun,
          result |-> RuntimeError("Model not loaded")]
    ELSE CHOOSE out \in
           { single_outcome(b, processed) :
               processed \in {preprocess(b, DataFrame(<<features>>))} } : TRUE

predict_single(b, ld, features) == predict_single_steps(b, ld, features).result

\* a slip: the results in the reverse of the row order
batch_results_reversed(label_encoder, y, P) ==
    [i \in 1..Len(y) |->
        Prediction(inverse_transform(label_encoder, y[Len(y) + 1 - i]),
                   prob_dict(label_encoder, P[Len(y) + 1 - i]))]

\* the results list of predict_batch: one pair for each row of the
\* predictions, in row order
batch_results(label_encoder, y, P) ==
    [i \in 1..Len(zip(y, P)) |->
        Prediction(inverse_transform(label_encoder, y[i]),
                   prob_dict(label_encoder, P[i]))]

\* predict_batch from the call of preprocess on
batch_outcome(b, processed) ==
    IF ~processed.ok
    THEN [processed |-> processed, handed |-> NotRun, result |-> processed]
    ELSE CHOOSE out \in
           { [processed |-> processed,
              handed    |-> processed,
              result    |->
                  IF ~e.ok THEN e
                  ELSE [ok |-> TRUE,
                        results |-> batch_results(b.label_encoder, e.y, e.P)]] :
               e \in {infer(b, processed.df)} } : TRUE

\* predict_batch, as predict_single_steps
predict_batch_steps(b, ld, features_list) ==
    IF ~ld
    THEN [processed |-> NotRun, handed |-> NotRun,
          result |-> RuntimeError("Model not loaded")]
    ELSE CHOOSE out \in
           { batch_outcome(b, processed) :
               processed \in {preprocess(b, DataFrame(features_list))} } : TRUE

predict_batch(b, ld, features_list) == predict_batch_steps(b, ld, features_list).result

\* get_model_info: the fields it reports (the model's class name and
\* hyperparameters apart)
get_model_info(b, ld) ==
    IF ~ld THEN RuntimeError("Model not loaded")
    ELSE [ok |-> TRUE,
          n_features           |-> Len(b.feature_names),
          feature_names        |-> b.feature_names,
          target_classes       |-> b.label_encoder.classes_,
          numerical_features   |-> b.numerical_features,
          categorical_features |-> b.categorical_features]

----------------------------------------------------------------------------
(* app/main.py: the handlers, as functions of the global predictor (None or *)
(* the predictor object, whose fields are b and whose _loaded is ld)        *)

\* the global predictor once lifespan has assigned it
PredictorObject == [k |-> "FinancialStressPredictor"]

\* the members of StressLevel
StressLevel ==
    { Str(<<"L", "o", "w">>),
      Str(<<"M", "o", "d", "e", "r", "a", "t", "e">>),
      Str(<<"H", "i", "g", "h">>) }

\* an HTTPException, or the 422 of request validation
HTTPError(status_code, detail) ==
    [status |-> status_code, detail |-> detail, worker_id |-> Nan,
     predicted |-> FALSE, predicted_stress_level |-> Nan,
     prediction_probabilities |-> <<>>]

\* a PredictionResponse, sent with status 200
PredictionResponse(worker_id, predicted_class, probabilities) ==
    [status |-> 200, detail |-> "", worker_id |-> worker_id,
     predicted |-> TRUE, predicted_stress_level |-> predicted_class,
     prediction_probabilities |-> probabilities]

\* the answer to a body that does not validate: 422 with the errors and
\* their inputs; when an input is nan or infinite the 422 response cannot be
\* rendered, and global_exception_handler answers for the ValueError
validation_error_status(inputs) ==
    IF \E v \in inputs : not_json_compliant(v) THEN 500 ELSE 422

validation_error_detail(inputs) ==
    IF \E v \in inputs : not_json_compliant(v) THEN "Internal server error"
    ELSE "ValidationError"

\* a slip: the handlers without their readiness test
model_not_loaded_unchecked(pred, ld) == FALSE

\* "not predictor or not predictor.is_loaded()"
model_not_loaded(pred, ld) == pred = None \/ ~is_loaded(ld)

\* a method called on the global predictor: AttributeError when it is None
AttributeError == [ok |-> FALSE, err |-> "AttributeError", key |-> "NoneType"]

\* the answer of /predict to what predict_single returned or raised
predict_answer(features, r) ==
    IF ~r.ok THEN HTTPError(500, r.err)
    ELSE IF r.predicted_class \notin StressLevel
    THEN HTTPError(500, "ValidationError")
    ELSE PredictionResponse(features["worker_id"], r.predicted_class, r.prob_dict)

\* the handler of POST /predict
main_predict(pred, b, ld, features) ==
    IF model_not_loaded(pred, ld) THEN HTTPError(503, "Model not loaded")
    ELSE IF pred = None THEN predict_answer(features, AttributeError)
    ELSE CHOOSE out \in
           { predict_answer(features, r) :
               r \in {predict_single(b, ld, features)} } : TRUE

BatchError(status_code, detail) ==
    [status |-> status_code, detail |-> detail, predictions |-> <<>>,
     total_processed |-> 0]

\* a slip: a batch the predictor could not process answered as an empty success
batch_failure_skipped(err) ==
    [status |-> 200, detail |-> "", predictions |-> <<>>, total_processed |-> 0]

\* the answer to a batch for which predict_batch raised
batch_failure(err) == BatchError(500, err)

\* the answer of /predict_batch to what predict_batch returned or raised
predict_batch_answer(request_workers, r) ==
    IF ~r.ok THEN batch_failure(r.err)
    ELSE IF \E i \in 1..Len(r.results) :
               r.results[i].predicted_class \notin StressLevel
    THEN batch_failure("ValidationError")
    ELSE LET predictions ==
                 [i \in 1..Len(r.results) |->
                     PredictionResponse(request_workers[i]["worker_id"],
                                        r.results[i].predicted_class,
                                        r.results[i].prob_dict)]
         IN  [status |-> 200, detail |-> "",
              predictions |-> predictions,
              total_processed |-> Len(predictions)]

\* the handler of POST /predict_batch
main_predict_batch(pred, b, ld, request_workers) ==
    IF model_not_loaded(pred, ld) THEN BatchError(503, "Model not loaded")
    ELSE IF pred = None THEN predict_batch_answer(request_workers, AttributeError)
    ELSE CHOOSE out \in
           { predict_batch_answer(request_workers, r) :
               r \in {predict_batch(b, ld, request_workers)} } : TRUE

\* the handler of GET /health
health_check(pred, ld) ==
    [status       |-> IF pred # None /\ is_loaded(ld) THEN "healthy" ELSE "unhealthy",
     model_loaded |-> IF pred # None THEN is_loaded(ld) ELSE FALSE]

\* a slip: the facade ready whatever the load did
lifecycle_after_load_always_ready(r) == "Ready"

\* the state of the facade once lifespan has constructed the predictor, or
\* has re-raised what the construction raised
lifecycle_after_load(r) == IF r.ok THEN "Ready" ELSE "Failed"

----------------------------------------------------------------------------
(* The artifact bundles explored.  scripts/train_model.py builds the bundle *)
(* from a training table with the columns of WorkerFeatures: the numerical  *)
(* features are the number columns followed by credit_age_months_numeric,   *)
(* the categorical features the str columns other than worker_id, and       *)
(* feature_names the columns of the table the model was fitted on.          *)

IndexOf(q, x) == CHOOSE i \in 1..Len(q) : q[i] = x

TrainedNumerical ==
    SelectSeq(WorkerFeatureFields, LAMBDA f : FieldType(f) \in {"float", "int"})
        \o <<"credit_age_months_numeric">>

TrainedCategorical ==
    SelectSeq(WorkerFeatureFields,
              LAMBDA f : FieldType(f) = "str"
                         /\ f \notin {"worker_id", "credit_age_months"})

TrainedFeatureNames ==
    SelectSeq(WorkerFeatureFields,
              LAMBDA f : f \notin {"worker_id", "credit_age_months"})
        \o <<"credit_age_months_numeric">>

\* training statistics: any numbers; here a different one for each column,
\* the median a whole number and the mean not
TrainMedians ==
    [c \in Range(TrainedNumerical) |-> Num(100 + IndexOf(TrainedNumerical, c))]

TrainMeans ==
    [c \in Range(TrainedNumerical) |->
        Rat(401 + 2 * IndexOf(TrainedNumerical, c), 2)]

Restrict(f, S) == [x \in S |-> f[x]]

RECURSIVE Reverse(_)
Reverse(q) == IF q = <<>> THEN <<>> ELSE Append(Reverse(Tail(q)), Head(q))

\* the columns whose statistics the "partial" bundles lack
StatLackingColumns ==
    {c \in Range(TrainedNumerical) : IndexOf(TrainedNumerical, c) % 4 \in {0, 1}}

OutlierChoices ==
    { SelectSeq(TrainedNumerical, LAMBDA c : IndexOf(TrainedNumerical, c) % 2 = 1),
      SelectSeq(TrainedNumerical, LAMBDA c : IndexOf(TrainedNumerical, c) % 2 = 0) }

StatChoices ==
    { [medians |-> TrainMedians, means |-> TrainMeans],
      [medians |-> Restrict(TrainMedians, DOMAIN TrainMedians \ StatLackingColumns),
       means   |-> Restrict(TrainMeans, DOMAIN TrainMeans \ StatLackingColumns)] }

\* the feature lists of a bundle: as trained; feature_names in another order;
\* feature_names naming a column the records do not have; a feature of
\* feature_names listed neither as numerical nor as categorical; and fewer
\* features than the records have
SchemaChoices ==
    { [num |-> TrainedNumerical, cat |-> TrainedCategorical,
       names |-> TrainedFeatureNames],
      [num |-> TrainedNumerical, cat |-> TrainedCategorical,
       names |-> Reverse(TrainedFeatureNames)],
      [num |-> TrainedNumerical, cat |-> TrainedCategorical,
       names |-> Append(TrainedFeatureNames, "financial_stress_level")],
      [num |-> SeqWithout(TrainedNumerical, "worker_age"),
       cat |-> SeqWithout(TrainedCategorical, "job_sector"),
       names |-> TrainedFeatureNames],
      [num |-> TrainedNumerical, cat |-> TrainedCategorical,
       names |-> SelectSeq(TrainedFeatureNames,
                           LAMBDA c : IndexOf(TrainedFeatureNames, c) % 3 # 0)] }

\* the fitted ColumnTransformer: the scaler's mean_ and scale_ for each
\* numerical feature, the encoder's categories_ (sorted) for each categorical
\* one
TrainedPreprocessor ==
    [num         |-> TrainedNumerical,
     cat         |-> TrainedCategorical,
     mean_       |-> TrainMeans,
     scale_      |-> [c \in Range(TrainedNumerical) |-> Num(2)],
     categories_ |-> [c \in Range(TrainedCategorical) |->
                        IF c = "job_sector"
                        THEN <<Str(Unknown), ExampleValue(c)>>
                        ELSE <<ExampleValue(c), Str(Unknown)>>]]

\* the fitted LabelEncoder: classes_ is sorted
TrainedLabelEncoder ==
    [classes_ |-> << Str(<<"H", "i", "g", "h">>),
                     Str(<<"L", "o", "w">>),
                     Str(<<"M", "o", "d", "e", "r", "a", "t", "e">>) >>]

\* a fitted classifier: it splits the scaled worker_age, the first column of
\* the matrix, at the scaled age 50, and does not take missing values
TrainedModel ==
    [feature   |-> 1,
     threshold |-> scale_cell(TrainedPreprocessor, "worker_age", Num(50)),
     low       |-> <<Rat(1, 10), Rat(7, 10), Rat(1, 5)>>,
     high      |-> <<Rat(3, 5), Rat(1, 10), Rat(3, 10)>>,
     missing   |-> "raise"]

\* other classifiers: one that sends a missing value to its high side, and
\* one that splits the indicator column of job_sector
ModelChoices ==
    { TrainedModel,
      [TrainedModel EXCEPT !.missing = "high"],
      [feature   |-> Len(TrainedNumerical) + 2,
       threshold |-> Rat(1, 2),
       low       |-> <<Rat(1, 4), Rat(1, 4), Rat(1, 2)>>,
       high      |-> <<Rat(1, 10), Rat(7, 10), Rat(1, 5)>>,
       missing   |-> "low"] }

\* the bundle train_model.py saves
TrainedBundle ==
    [model                   |-> TrainedModel,
     preprocessor            |-> TrainedPreprocessor,
     label_encoder           |-> TrainedLabelEncoder,
     train_medians           |-> TrainMedians,
     train_means             |-> TrainMeans,
     numerical_cols_outliers |-> SelectSeq(TrainedNumerical,
                                     LAMBDA c : IndexOf(TrainedNumerical, c) % 2 = 1),
     numerical_features      |-> TrainedNumerical,
     categorical_features    |-> TrainedCategorical,
     feature_names           |-> TrainedFeatureNames]

Bundles ==
    { [model                   |-> TrainedModel,
       preprocessor            |-> TrainedPreprocessor,
       label_encoder           |-> TrainedLabelEncoder,
       train_medians           |-> st.medians,
       train_means             |-> st.means,
       numerical_cols_outliers |-> o,
       numerical_features      |-> sc.num,
       categorical_features    |-> sc.cat,
       feature_names           |-> sc.names] :
        st \in StatChoices, o \in OutlierChoices, sc \in SchemaChoices }

\* the trained bundle without the statistics of StatLackingColumns
PartialBundle ==
    [TrainedBundle EXCEPT
        !.train_medians = Restrict(TrainMedians, DOMAIN TrainMedians \ StatLackingColumns),
        !.train_means   = Restrict(TrainMeans, DOMAIN TrainMeans \ StatLackingColumns)]

\* a bundle made by hand: the stored statistics of the two clipped columns
\* negative, which those train_model.py computes (after its own clamp) are not
NegativeStatBundle ==
    [TrainedBundle EXCEPT
        !.train_medians = [c \in DOMAIN TrainMedians |->
                              IF c \in ClippedColumns THEN Num(-3) ELSE TrainMedians[c]],
        !.train_means   = [c \in DOMAIN TrainMeans |->
                              IF c \in ClippedColumns THEN Rat(-5, 2) ELSE TrainMeans[c]]]

\* the bundles the normalizer is explored under
NormBundles == Bundles \cup {NegativeStatBundle}

\* the trained bundle with worker_id named first among its features
WorkerIdBundle ==
    [TrainedBundle EXCEPT !.feature_names = <<"worker_id">> \o TrainedFeatureNames]

\* the complete artifacts a file may hold
CompleteArtifacts ==
    Bundles \cup {[b EXCEPT !.model = m] :
                     b \in {TrainedBundle, PartialBundle}, m \in ModelChoices}
            \cup {WorkerIdBundle}

\* the keys the incomplete files lack, one each
LackingKeys == {"model", "train_means", "feature_names"}

\* what may be at model_path: nothing, a file joblib cannot read, complete
\* artifacts, and artifacts lacking a key
ArtifactFiles ==
    {Absent, Corrupt}
        \cup {Pickled(a) : a \in CompleteArtifacts}
        \cup {Pickled(Restrict(TrainedBundle, Range(ArtifactKeys) \ {k})) :
                 k \in LackingKeys}

----------------------------------------------------------------------------
(* The inputs explored *)

AgeTokens == { <<"1">>, <<"2">>, Suffix_y, Suffix_m, <<" ">>, <<"-">>, <<"x">> }

RECURSIVE TokenStrings(_)
TokenStrings(n) ==
    IF n = 0 THEN {<<>>}
    ELSE LET shorter == TokenStrings(n - 1)
         IN  shorter \cup {s \o t : s \in shorter, t \in AgeTokens}

\* the strings of the docstring and of the example record
DocumentedAges ==
    { <<"1", "7", " ", "y", ".", " ", "1", "1", " ", "m", ".">>,
      <<"2", "0", " ", "y", ".", " ", "7", " ", "m", ".">> }

\* strings with parts int() takes though they are no plain digits: an
\* underscore between digits, white space other than the space, a digit of
\* another script; and parts it does not take
LenientAges ==
    { <<"1", "_", "0", " ", "y", ".", " ", "2", " ", "m", ".">>,
      <<"\t", "1", " ", "y", ".", " ", "2", " ", "m", ".">>,
      <<"1", "\n", " ", "y", ".", " ", "2", " ", "m", ".">>,
      <<"1", " ", "y", ".", " ", "2", "\n", " ", "m", ".">>,
      <<"U+0663", " ", "y", ".", " ", "2", " ", "m", ".">>,
      <<"1", "_", "_", "0", " ", "y", ".", " ", "2", " ", "m", ".">>,
      <<"_", "1", " ", "y", ".", " ", "2", " ", "m", ".">>,
      <<"1", "\t", "0", " ", "y", ".", " ", "2", " ", "m", ".">>,
      <<"U+000B", "1", " ", "y", ".", " ", "2", " ", "m", ".">>,
      <<"1", " ", "y", ".", " ", "2", "U+000B", " ", "m", ".">>,
      <<"U+00A0", "1", " ", "y", ".", " ", "2", " ", "m", ".">>,
      <<"1", "U+001C", " ", "y", ".", " ", "2", " ", "m", ".">> }

\* the values convert_credit_age is applied to: missing, a number, strings
AgeInputs ==
    {Nan, Num(12)} \cup {Str(s) : s \in TokenStrings(MaxTokens) \cup DocumentedAges \cup LenientAges}

\* the values a record may hold in field f instead of the example's
Alternatives(f) ==
    IF f = "credit_age_months"
    THEN { Nan,
           Str(<<"2", " ", "y", ".", " ", "1", " ", "m", ".">>),
           Str(<<"1", " ", "2">>),
           Str(<<"x">>) }
    ELSE IF FieldType(f) = "str" THEN {Nan}
    ELSE IF f \in FieldsWithLe THEN {Nan, Num(-12), Num(130)}
    ELSE {Nan, Num(-12)}

RECURSIVE Varied(_, _)
Varied(recs, k) ==
    IF k = 0 THEN recs
    ELSE Varied(recs \cup {[r EXCEPT ![f] = v] :
                              r \in recs, <<f, v>> \in
                                  UNION {{f} \X Alternatives(f) : f \in DOMAIN ExampleRecord}},
                k - 1)

\* a record with several malformed fields at once
MalformedRecord ==
    [ExampleRecord EXCEPT !["worker_age"] = Nan,
                          !["job_sector"] = Nan,
                          !["num_savings_accounts"] = Num(-1),
                          !["avg_loan_delay_days"] = Rat(-7, 2),
                          !["end_of_month_balance"] = Num(-100)]

\* the records explored: the example record with up to MaxVaried fields
\* changed, and the malformed record
Records == Varied({ExampleRecord}, MaxVaried) \cup {MalformedRecord}

\* request bodies with a number written as a str, which validation reads,
\* with a str that is no number, and with float('nan')
LaxRecords ==
    { [ExampleRecord EXCEPT !["worker_age"] = Str(<<"2", "8">>)],
      [ExampleRecord EXCEPT !["worker_age"] = Str(<<" ", "3", "1", ".", "5">>)],
      [ExampleRecord EXCEPT !["num_credit_cards"] = Str(<<"5">>)],
      [ExampleRecord EXCEPT !["num_credit_cards"] = Str(<<"5", ".", "5">>)],
      [ExampleRecord EXCEPT !["worker_age"] = Str(<<"1", "3", "0">>)],
      [ExampleRecord EXCEPT !["worker_age"] = Str(<<"x">>)],
      [ExampleRecord EXCEPT !["worker_age"] = FloatNan],
      [ExampleRecord EXCEPT !["num_credit_cards"] = FloatNan],
      [ExampleRecord EXCEPT !["job_sector"] = FloatNan],
      [ExampleRecord EXCEPT !["worker_age"] = Str(<<"1", "e", "2">>)],
      [ExampleRecord EXCEPT !["worker_age"] = Str(<<"i", "n", "f">>)],
      [ExampleRecord EXCEPT !["num_credit_cards"] = Str(<<"1", "_", "0", ".", "0">>)],
      [ExampleRecord EXCEPT !["num_credit_cards"] = Str(<<"5", ".">>)],
      [ExampleRecord EXCEPT !["estimated_annual_income"] = Str(<<"U+000B", "5">>)],
      [ExampleRecord EXCEPT !["estimated_annual_income"] = Str(<<"i", "n", "f">>)],
      [ExampleRecord EXCEPT !["estimated_annual_income"] = Inf(FALSE)],
      [ExampleRecord EXCEPT !["worker_age"] = Inf(FALSE)],
      [ExampleRecord EXCEPT !["num_credit_cards"] = Str(<<"0", "_">>)],
      [ExampleRecord EXCEPT !["num_credit_cards"] = Str(<<"-", "0", "_", "_", "0">>)],
      [ExampleRecord EXCEPT !["num_credit_cards"] = Str(<<"+", "-", "0">>)],
      [ExampleRecord EXCEPT !["num_credit_cards"] = Str(<<"0", "-", "0", "0">>)],
      [ExampleRecord EXCEPT !["num_savings_accounts"] = Str(<<"0", "_", "-", "0", "0">>)],
      [ExampleRecord EXCEPT !["num_credit_cards"] = Str(<<"0", "-", "0">>)] }

\* a list of one record more than max_length allows, rec the last of them
TooMany(rec) == [i \in 1..1001 |-> IF i = 1001 THEN rec ELSE ExampleRecord]

\* the rows that may follow the first one in a frame
RECURSIVE Companions(_)
Companions(n) ==
    IF n = 0 THEN {<<>>}
    ELSE Companions(n - 1)
         \cup {[i \in 1..n |-> r] : r \in {ExampleRecord, EmptyRecord}}

\* the frames given to preprocess: one to MaxBatch records
Frames == {DataFrame(<<r>> \o q) : r \in Records, q \in Companions(MaxBatch - 1)}

\* the fields in which the first record of a batch may differ from the example
BatchVariedFields == {"worker_id", "worker_age", "credit_age_months"}

\* the bodies posted to /predict_batch: one to MaxBatch records
BatchRequests ==
    { <<r>> \o q :
        r \in {x \in Records :
                  \/ x = MalformedRecord
                  \/ \A f \in DOMAIN x : f \notin BatchVariedFields => x[f] = ExampleRecord[f]},
        q \in Companions(MaxBatch - 1) }
    \cup { <<>>,
           <<[ExampleRecord EXCEPT !["worker_age"] = Str(<<"2", "8">>)], ExampleRecord>>,
           <<ExampleRecord, [ExampleRecord EXCEPT !["worker_age"] = FloatNan]>>,
           <<ExampleRecord, [ExampleRecord EXCEPT !["estimated_annual_income"] = Inf(FALSE)]>>,
           <<ExampleRecord, [ExampleRecord EXCEPT !["num_credit_cards"] = Str(<<"0", "-", "0", "0">>)]>>,
           TooMany(ExampleRecord),
           TooMany([ExampleRecord EXCEPT !["estimated_annual_income"] = Inf(FALSE)]) }

----------------------------------------------------------------------------
(* A prediction call step by step: the statements of predict_single and     *)
(* predict_batch, of preprocess and of preprocess_input_data, one step      *)
(* each, so that several calls on one predictor can be interleaved.  A call *)
(* holds its own frame; the predictor's fields are what the calls share.    *)

\* most calls in progress at once
MaxCalls == 2

\* a slip: the fill run before the clamp
CallSteps_fill_first ==
    << "frame", "drop_worker_id", "credit_age", "fill_missing", "fix_negative",
       "reorder", "transform", "predict", "decode" >>

\* the statements of a prediction call, in the order the code runs them:
\* the DataFrame of the dumped records; in preprocess, worker_id dropped, the
\* three steps of preprocess_input_data, and the projection to feature_names;
\* then the transformer, the classifier, and the decoding of the results
CallSteps ==
    << "frame", "drop_worker_id", "credit_age", "fix_negative", "fill_missing",
       "reorder", "transform", "predict", "decode" >>

\* a call of predict_single (one record) or predict_batch (a list) that has
\* passed the _loaded guard
NewCall(kind, features_list) ==
    [kind |-> kind, features |-> features_list, posted |-> features_list, pc |-> 1,
     df |-> NotRun, e |-> NotRun, result |-> NotRun, trace |-> <<>>]

\* the call after a step that left it the frame (or raised) d
FrameStep(c, name, d) ==
    IF d.ok
    THEN [c EXCEPT !.df = d, !.pc = @ + 1, !.trace = Append(@, name)]
    ELSE [c EXCEPT !.df = d, !.pc = Len(CallSteps) + 1, !.trace = Append(@, name),
                   !.result = d]

\* the call after the classifier step, e the predictions or the exception
InferStep(c, name, e) ==
    IF e.ok
    THEN [c EXCEPT !.e = e, !.pc = @ + 1, !.trace = Append(@, name)]
    ELSE [c EXCEPT !.e = e, !.pc = Len(CallSteps) + 1, !.trace = Append(@, name),
                   !.result = e]

\* what the call returns: predict_single the pair of the first row,
\* predict_batch the list of the pairs
call_result(b, c) ==
    IF c.kind = "single"
    THEN Prediction(inverse_transform(b.label_encoder, c.e.y[1]),
                    prob_dict(b.label_encoder, c.e.P[1]))
    ELSE [ok |-> TRUE, results |-> batch_results(b.label_encoder, c.e.y, c.e.P)]

\* the call c after its step name, run on a predictor with the fields b
run_step(name, b, c) ==
    CASE name = "frame" ->
           FrameStep(c, name, Ok(DataFrame(c.features)))
      [] name = "drop_worker_id" ->
           FrameStep(c, name, Ok(without_worker_id(c.df.df)))
      [] name = "credit_age" ->
           FrameStep(c, name, preprocess_credit_age(c.df.df))
      [] name = "fix_negative" ->
           FrameStep(c, name, Ok(fix_negative_values(c.df.df)))
      [] name = "fill_missing" ->
           FrameStep(c, name,
                     Ok(fill_missing_values(c.df.df, b.numerical_features,
                                            b.categorical_features, b.train_medians,
                                            b.train_means, b.numerical_cols_outliers)))
      [] name = "reorder" ->
           FrameStep(c, name, select_columns(c.df.df, b.feature_names))
      [] name = "transform" ->
           InferStep(c, name, transform(b.preprocessor, c.df.df))
      [] name = "predict" ->
           InferStep(c, name, classify(b, c.e))
      [] name = "decode" ->
           [c EXCEPT !.result = call_result(b, c), !.pc = @ + 1,
                     !.trace = Append(@, name)]

\* the statistic dictionary d with an entry added, from the frame, for each
\* column of cols that has a missing cell and no entry: what
\* d.setdefault(col, ...) in place of d.get(col, ...) would leave
RECURSIVE with_batch_statistics(_, _, _, _, _)
with_batch_statistics(d, df, cols, i, median) ==
    IF i > Len(cols) THEN d
    ELSE LET col == cols[i]
             add == col \in Range(df.columns) /\ any_null(df, col) /\ col \notin DOMAIN d
             v   == IF median THEN series_median(df, col) ELSE series_mean(df, col)
         IN  with_batch_statistics(
                 IF add THEN [k \in DOMAIN d \cup {col} |-> IF k = col THEN v ELSE d[k]]
                 ELSE d,
                 df, cols, i + 1, median)

\* a slip: the fallback statistics of a call's frame stored in the predictor
fields_after_step_cached(name, b, c) ==
    IF name = "fill_missing" /\ c.df.ok
    THEN [b EXCEPT
            !.train_medians = with_batch_statistics(
                                  @, c.df.df,
                                  SelectSeq(b.numerical_features,
                                            LAMBDA col : col \in Range(b.numerical_cols_outliers)),
                                  1, TRUE),
            !.train_means   = with_batch_statistics(
                                  @, c.df.df,
                                  SelectSeq(b.numerical_features,
                                            LAMBDA col : col \notin Range(b.numerical_cols_outliers)),
                                  1, FALSE)]
    ELSE b

\* the predictor's fields after a step of a call: no statement of a
\* prediction call assigns to an attribute of the predictor, and the
\* statistics are read with dict.get, which adds no entry
fields_after_step(name, b, c) == b

----------------------------------------------------------------------------
(* app/download_model.py.  The disk holds at MODEL_PATH nothing or a file,  *)
(* its content the sequence of the chunks written to it; MODEL_URL is the   *)
(* sequence of the parts of the URL, empty when the variable is not set.    *)

\* most chunks in the body of a download
MaxChunks == 2

NoFile == [at |-> "nothing"]

File(content) == [at |-> "file", content |-> content]

\* MODEL_PATH.exists()
path_exists(file) == file.at = "file"

\* the artifact file a training run has left at MODEL_PATH
ExistingFile == File(<<"artifacts">>)

\* the values of MODEL_URL explored
ModelUrls ==
    { <<>>,
      \* https://example.com/m
      <<"h", "t", "t", "p", "s", ":", "/", "/", "e", "x", "a", "m", "p",
        "l", "e", ".", "c", "o", "m", "/", "m">>,
      \* https://dropbox.com/m?dl=0
      <<"h", "t", "t", "p", "s", ":", "/", "/", "d", "r", "o", "p", "b",
        "o", "x", ".", "c", "o", "m", "/", "m", "?", "d", "l", "=", "0">>,
      \* https://dropbox.com/m?dl=1
      <<"h", "t", "t", "p", "s", ":", "/", "/", "d", "r", "o", "p", "b",
        "o", "x", ".", "c", "o", "m", "/", "m", "?", "d", "l", "=", "1">>,
      \* https://dropbox.com/m
      <<"h", "t", "t", "p", "s", ":", "/", "/", "d", "r", "o", "p", "b",
        "o", "x", ".", "c", "o", "m", "/", "m">>,
      \* https://dropbox.com/m?k=v
      <<"h", "t", "t", "p", "s", ":", "/", "/", "d", "r", "o", "p", "b",
        "o", "x", ".", "c", "o", "m", "/", "m", "?", "k", "=", "v">>,
      \* https://dropbox.com/m?dl=2
      <<"h", "t", "t", "p", "s", ":", "/", "/", "d", "r", "o", "p", "b",
        "o", "x", ".", "c", "o", "m", "/", "m", "?", "d", "l", "=", "2">>,
      \* https://dropbox.com/m?a=dl=0
      <<"h", "t", "t", "p", "s", ":", "/", "/", "d", "r", "o", "p", "b",
        "o", "x", ".", "c", "o", "m", "/", "m", "?", "a", "=", "d", "l",
        "=", "0">>,
      \* https://dropbox.com/m?dl=
      <<"h", "t", "t", "p", "s", ":", "/", "/", "d", "r", "o", "p", "b",
        "o", "x", ".", "c", "o", "m", "/", "m", "?", "d", "l", "=">>,
      \* https://dropbox.com/dl=0?dl=0
      <<"h", "t", "t", "p", "s", ":", "/", "/", "d", "r", "o", "p", "b",
        "o", "x", ".", "c", "o", "m", "/", "d", "l", "=", "0", "?", "d",
        "l", "=", "0">>,
      \* https://example.com/m?dl=0
      <<"h", "t", "t", "p", "s", ":", "/", "/", "e", "x", "a", "m", "p",
        "l", "e", ".", "c", "o", "m", "/", "m", "?", "d", "l", "=", "0">> }

\* "part in url": part is a substring of url
url_has(url, part) ==
    \E i \in 1..(Len(url) - Len(part) + 1) : SubSeq(url, i, i + Len(part) - 1) = part

\* s.replace(old, new): every non-overlapping occurrence of old, left to right
RECURSIVE str_replace(_, _, _)
str_replace(s, old, new) ==
    IF s = <<>> THEN <<>>
    ELSE IF StartsWith(s, old)
         THEN new \o str_replace(SubSeq(s, Len(old) + 1, Len(s)), old, new)
         ELSE <<Head(s)>> \o str_replace(Tail(s), old, new)

Dropbox == <<"d", "r", "o", "p", "b", "o", "x", ".", "c", "o", "m">>

\* the URL requested: a Dropbox link is made a direct download
download_url(url) ==
    IF url_has(url, Dropbox) /\ url_has(url, <<"d", "l", "=", "0">>)
    THEN str_replace(url, <<"d", "l", "=", "0">>, <<"d", "l", "=", "1">>)
    ELSE IF url_has(url, Dropbox) /\ ~url_has(url, <<"d", "l", "=">>)
    THEN url \o (IF url_has(url, <<"?">>) THEN <<"&">> ELSE <<"?">>)
             \o <<"d", "l", "=", "1">>
    ELSE url

\* the chunks iter_content may yield: data, and the empty chunk the loop skips
Chunks == {"data", ""}

RECURSIVE Bodies(_)
Bodies(n) ==
    IF n = 0 THEN {<<>>}
    ELSE Bodies(n - 1) \cup {Append(q, c) : q \in Bodies(n - 1), c \in Chunks}

\* what the server does with the request: the connection fails, the status
\* is an error, or the body is received, whole or up to a break of the stream
ServerAnswers ==
    { [answer |-> "connection error", body |-> <<>>, breaks |-> FALSE],
      [answer |-> "error status", body |-> <<>>, breaks |-> FALSE] }
        \cup { [answer |-> "ok", body |-> q, breaks |-> br] :
                   q \in Bodies(MaxChunks), br \in BOOLEAN }

\* f.write(chunk) for a chunk of the body: an empty chunk is not written
write_chunk(file, chunk) ==
    IF chunk = "" THEN file ELSE File(Append(file.content, chunk))

\* a slip: the partial download left on the disk
remove_partial_kept(file) == file

\* the except branch: the file at MODEL_PATH, if there is one, is removed
remove_partial(file) == IF path_exists(file) THEN NoFile ELSE file

\* the state of a download_model call: where it is, the disk, what it was
\* called with, and what it has done
NoDownload ==
    [pc |-> "not called", file |-> NoFile, file_at_call |-> NoFile, url |-> <<>>,
     requested |-> <<>>, server |-> [answer |-> "none", body |-> <<>>, breaks |-> FALSE],
     written |-> 0, result |-> "none"]

----------------------------------------------------------------------------
(* Actions *)

NoResponse == HTTPError(0, "")

NoRequest == EmptyRecord

NoBatchResponse == BatchError(0, "")

NoHealth == [status |-> "", model_loaded |-> FALSE]

NothingReturned == [ok |-> FALSE, err |-> "not run"]

\* the variables an operation does not touch
PredictorUnchanged == UNCHANGED <<bundle, loaded, predictor, lifecycle, serving, model_file>>

AgeUnchanged == UNCHANGED <<age_in, age_out>>

StepsUnchanged == UNCHANGED <<data_frame, df_age, df_neg, df_fill, processed_data>>

ServiceUnchanged ==
    UNCHANGED <<request, response, handed, workers, batch_response, health, returned>>

CallsUnchanged == UNCHANGED calls

DownloadUnchanged == UNCHANGED download

\* one call of convert_credit_age, on the value chosen at the start
ConvertCreditAge ==
    /\ op = "age_input"
    /\ op' = "convert_credit_age"
    /\ age_out' = convert_credit_age(age_in)
    /\ UNCHANGED age_in
    /\ PredictorUnchanged /\ StepsUnchanged /\ ServiceUnchanged
    /\ CallsUnchanged /\ DownloadUnchanged

\* predictor.preprocess(df): the outcome of each step
RunPreprocess(df) ==
    LET t == preprocess_steps(bundle, df)
    IN  /\ data_frame' = df
        /\ df_age' = t.age
        /\ df_neg' = t.neg
        /\ df_fill' = t.fill
        /\ processed_data' = preprocess(bundle, df)

\* one call of predictor.preprocess, on the frame chosen at the start
Preprocess ==
    /\ op = "frame_input"
    /\ op' = "preprocess"
    /\ RunPreprocess(data_frame)
    /\ PredictorUnchanged /\ AgeUnchanged /\ ServiceUnchanged
    /\ CallsUnchanged /\ DownloadUnchanged

\* predictor.preprocess called again, on the frame it has just returned
PreprocessAgain ==
    /\ op = "preprocess"
    /\ processed_data.ok
    /\ op' = "preprocess_again"
    /\ RunPreprocess(processed_data.df)
    /\ PredictorUnchanged /\ AgeUnchanged /\ ServiceUnchanged
    /\ CallsUnchanged /\ DownloadUnchanged

\* lifespan, up to the end of download_model: at the predictor's model_path
\* is what a load would find
LifespanDownload ==
    /\ lifecycle = "Unloaded" /\ ~serving
    /\ lifecycle' = "Loading"
    /\ \E file \in ArtifactFiles : model_file' = file
    /\ UNCHANGED <<bundle, loaded, predictor, serving, op>>
    /\ AgeUnchanged /\ StepsUnchanged /\ ServiceUnchanged
    /\ CallsUnchanged /\ DownloadUnchanged

\* lifespan when download_model raises (its mkdir stands outside its try
\* block, and its MODEL_PATH is not the predictor's model_path): lifespan
\* raises again, no predictor is constructed and the startup has failed,
\* whatever file is at the predictor's model_path
LifespanDownloadRaises ==
    /\ lifecycle = "Loading"
    /\ lifecycle' = "Failed"
    /\ predictor' = None
    /\ serving' = FALSE
    /\ UNCHANGED <<bundle, loaded, model_file, op>>
    /\ AgeUnchanged /\ StepsUnchanged /\ ServiceUnchanged
    /\ CallsUnchanged /\ DownloadUnchanged

\* lifespan, download_model having returned, from the construction of the
\* predictor on: when it returns the
\* global predictor is assigned and the application starts to answer; when
\* it raises, lifespan raises again, the startup has failed and the
\* application never answers a request
LifespanLoad ==
    /\ lifecycle = "Loading"
    /\ LET r == FinancialStressPredictor(model_file)
       IN  /\ bundle' = r.fields
           /\ loaded' = r.loaded
           /\ predictor' = IF r.ok THEN PredictorObject ELSE None
           /\ serving' = r.ok
           /\ lifecycle' = lifecycle_after_load(r)
    /\ UNCHANGED <<model_file, op>>
    /\ AgeUnchanged /\ StepsUnchanged /\ ServiceUnchanged
    /\ CallsUnchanged /\ DownloadUnchanged

\* the state a request starts from
FreshRequest ==
    /\ response' = NoResponse
    /\ batch_response' = NoBatchResponse
    /\ health' = NoHealth
    /\ handed' = NotRun
    /\ data_frame' = EmptyFrame
    /\ df_age' = NotRun /\ df_neg' = NotRun /\ df_fill' = NotRun
    /\ processed_data' = NotRun
    /\ UNCHANGED returned

\* a client posts a record to /predict
Receive ==
    /\ serving /\ op = "idle"
    /\ \E features \in Records \cup LaxRecords : request' = features
    /\ op' = "request"
    /\ FreshRequest
    /\ UNCHANGED workers
    /\ PredictorUnchanged /\ AgeUnchanged
    /\ CallsUnchanged /\ DownloadUnchanged

\* POST /predict: the request body is validated against WorkerFeatures (422
\* when it does not validate, 500 when the 422 cannot be rendered, the
\* handler not run); the handler answers 503
\* without a loaded predictor, 500 when predict_single raises, and otherwise
\* the prediction with the record's worker_id
Predict ==
    /\ op = "request"
    /\ op' = "response"
    /\ UNCHANGED <<request, workers, batch_response, health, returned>>
    /\ IF ~WorkerFeatures_valid(request)
       THEN /\ response' = HTTPError(validation_error_status(error_inputs(request)),
                                     validation_error_detail(error_inputs(request)))
            /\ UNCHANGED handed
            /\ StepsUnchanged
       ELSE \E features \in {WorkerFeatures(request)} :
            /\ response' = main_predict(predictor, bundle, loaded, features)
            /\ IF ~model_not_loaded(predictor, loaded) /\ predictor # None /\ loaded
               THEN /\ RunPreprocess(DataFrame(<<features>>))
                    /\ handed' = predict_single_steps(bundle, loaded, features).handed
               ELSE /\ UNCHANGED handed
                    /\ StepsUnchanged
    /\ PredictorUnchanged /\ AgeUnchanged
    /\ CallsUnchanged /\ DownloadUnchanged

\* a client posts a list of records to /predict_batch
ReceiveBatch ==
    /\ serving /\ op = "idle"
    /\ \E request_workers \in BatchRequests : workers' = request_workers
    /\ op' = "batch_request"
    /\ FreshRequest
    /\ UNCHANGED request
    /\ PredictorUnchanged /\ AgeUnchanged
    /\ CallsUnchanged /\ DownloadUnchanged

\* POST /predict_batch: as /predict, every record of the body validated
PredictBatch ==
    /\ op = "batch_request"
    /\ op' = "batch_response"
    /\ UNCHANGED <<request, workers, response, health, returned>>
    /\ IF ~BatchPredictionRequest_valid(workers)
       THEN /\ batch_response' =
                   BatchError(validation_error_status(batch_error_inputs(workers)),
                              validation_error_detail(batch_error_inputs(workers)))
            /\ UNCHANGED handed
            /\ StepsUnchanged
       ELSE \E request_workers \in {BatchPredictionRequest(workers)} :
            /\ batch_response' = main_predict_batch(predictor, bundle, loaded,
                                                    request_workers)
            /\ IF ~model_not_loaded(predictor, loaded) /\ predictor # None /\ loaded
               THEN /\ RunPreprocess(DataFrame(request_workers))
                    /\ handed' = predict_batch_steps(bundle, loaded,
                                                     request_workers).handed
               ELSE /\ UNCHANGED handed
                    /\ StepsUnchanged
    /\ PredictorUnchanged /\ AgeUnchanged
    /\ CallsUnchanged /\ DownloadUnchanged

\* GET /health
Health ==
    /\ serving /\ op = "idle"
    /\ op' = "health_response"
    /\ health' = health_check(predictor, loaded)
    /\ UNCHANGED <<request, workers, response, batch_response, handed, returned>>
    /\ StepsUnchanged /\ PredictorUnchanged /\ AgeUnchanged
    /\ CallsUnchanged /\ DownloadUnchanged

\* the response is sent; the service waits for the next request
Respond ==
    /\ op \in {"response", "batch_response", "health_response"}
    /\ op' = "idle"
    /\ request' = NoRequest
    /\ workers' = <<>>
    /\ FreshRequest
    /\ PredictorUnchanged /\ AgeUnchanged
    /\ CallsUnchanged /\ DownloadUnchanged

\* the records and lists given to the predictor when it is called directly
FacadeRecords == {ExampleRecord, MalformedRecord}

FacadeLists == {<<ExampleRecord, MalformedRecord>>, <<>>}

\* the frame of a call made on the predictor object itself
FacadeCall(name) ==
    /\ op \in {"constructed", "load_model", "predict_single", "predict_batch",
               "get_model_info", "is_loaded"}
    /\ op' = name
    /\ UNCHANGED <<predictor, lifecycle, serving, request, response, handed,
                   workers, batch_response, health>>
    /\ AgeUnchanged /\ StepsUnchanged
    /\ CallsUnchanged /\ DownloadUnchanged

\* load_model called on the constructed predictor, whatever is at model_path
FacadeLoadModel ==
    /\ FacadeCall("load_model")
    /\ \E file \in ArtifactFiles :
        LET r == load_model(bundle, loaded, file)
        IN  /\ model_file' = file
            /\ bundle' = r.fields
            /\ loaded' = r.loaded
            /\ returned' = [ok |-> r.ok, err |-> r.err]

FacadePredictSingle ==
    /\ FacadeCall("predict_single")
    /\ \E features \in FacadeRecords :
        returned' = predict_single(bundle, loaded, features)
    /\ UNCHANGED <<bundle, loaded, model_file>>

FacadePredictBatch ==
    /\ FacadeCall("predict_batch")
    /\ \E features_list \in FacadeLists :
        returned' = predict_batch(bundle, loaded, features_list)
    /\ UNCHANGED <<bundle, loaded, model_file>>

FacadeGetModelInfo ==
    /\ FacadeCall("get_model_info")
    /\ returned' = get_model_info(bundle, loaded)
    /\ UNCHANGED <<bundle, loaded, model_file>>

FacadeIsLoaded ==
    /\ FacadeCall("is_loaded")
    /\ returned' = [ok |-> TRUE, value |-> is_loaded(loaded)]
    /\ UNCHANGED <<bundle, loaded, model_file>>

\* the records and lists the interleaved calls are made with: a record
\* without worker_age, the example record, and a batch of the two
CallInputs ==
    { NewCall("single", <<[ExampleRecord EXCEPT !["worker_age"] = Nan]>>),
      NewCall("single", <<MalformedRecord>>),
      NewCall("batch", <<[ExampleRecord EXCEPT !["worker_age"] = Nan,
                                               !["worker_id"] = Nan],
                         ExampleRecord>>) }

\* the bundles the interleaved calls run on
CallBundles ==
    { TrainedBundle, PartialBundle,
      [TrainedBundle EXCEPT !.feature_names = Append(TrainedFeatureNames,
                                                     "financial_stress_level")] }

\* the next statement of call i runs
CallStep(i) ==
    /\ i \in 1..Len(calls)
    /\ calls[i].pc <= Len(CallSteps)
    /\ LET name == CallSteps[calls[i].pc]
       IN  /\ calls' = [calls EXCEPT ![i] = run_step(name, bundle, calls[i])]
           /\ bundle' = fields_after_step(name, bundle, calls[i])
           /\ op' = name
    /\ UNCHANGED <<loaded, predictor, lifecycle, serving, model_file>>
    /\ UNCHANGED <<request, response, handed, workers, batch_response, health, returned>>
    /\ AgeUnchanged /\ StepsUnchanged /\ DownloadUnchanged

\* the frame of a step of download_model
DownloadStep(at, next) ==
    /\ download.pc = at
    /\ op' = next
    /\ UNCHANGED <<request, response, handed, workers, batch_response, health, returned>>
    /\ PredictorUnchanged /\ AgeUnchanged /\ StepsUnchanged /\ CallsUnchanged

\* "if MODEL_PATH.exists(): return True"
DownloadCheckExists ==
    /\ DownloadStep("called", "exists")
    /\ download' =
          IF path_exists(download.file)
          THEN [download EXCEPT !.pc = "returned", !.result = "True"]
          ELSE [download EXCEPT !.pc = "check url"]

\* "if not MODEL_URL: return False"
DownloadCheckUrl ==
    /\ DownloadStep("check url", "url")
    /\ download' =
          IF download.url = <<>>
          THEN [download EXCEPT !.pc = "returned", !.result = "False"]
          ELSE [download EXCEPT !.pc = "request"]

\* MODEL_PATH.parent.mkdir, before the try block: what it raises leaves
\* download_model; then, in the try block, requests.get and raise_for_status
DownloadRequest ==
    /\ DownloadStep("request", "get")
    /\ \/ download' = [download EXCEPT !.pc = "raised", !.result = "OSError"]
       \/ \E sv \in ServerAnswers :
            download' = [download EXCEPT
                            !.requested = Append(@, download_url(download.url)),
                            !.server = sv,
                            !.pc = IF sv.answer = "ok" THEN "open" ELSE "except"]

\* open(MODEL_PATH, 'wb'): the file is created empty, or open raises
DownloadOpen ==
    /\ DownloadStep("open", "open")
    /\ \/ download' = [download EXCEPT !.file = File(<<>>), !.pc = "write"]
       \/ download' = [download EXCEPT !.pc = "except"]

\* one turn of the loop over iter_content: the next chunk is written; at the
\* end of a body that breaks off the stream raises; at the end of a whole
\* body the file is closed and True returned
DownloadWrite ==
    /\ DownloadStep("write", "write")
    /\ download' =
          IF download.server.body # <<>>
          THEN [download EXCEPT
                   !.file = write_chunk(@, Head(download.server.body)),
                   !.written = @ + (IF Head(download.server.body) = "" THEN 0 ELSE 1),
                   !.server.body = Tail(@)]
          ELSE IF download.server.breaks
          THEN [download EXCEPT !.pc = "except"]
          ELSE [download EXCEPT !.pc = "returned", !.result = "True"]

\* "except Exception": the partial download removed, False returned
DownloadExcept ==
    /\ DownloadStep("except", "except")
    /\ download' = [download EXCEPT !.file = remove_partial(@),
                                    !.pc = "returned", !.result = "False"]

----------------------------------------------------------------------------
(* Specifications *)

Blank ==
    /\ age_out = Nan
    /\ data_frame = EmptyFrame
    /\ df_age = NotRun /\ df_neg = NotRun /\ df_fill = NotRun
    /\ processed_data = NotRun
    /\ request = NoRequest /\ response = NoResponse /\ handed = NotRun
    /\ workers = <<>> /\ batch_response = NoBatchResponse
    /\ health = NoHealth /\ returned = NothingReturned

\* no prediction call in progress, no download_model call made
Quiet == calls = <<>> /\ download = NoDownload

\* a predictor constructed from artifacts b, outside the service
Constructed(b) ==
    /\ bundle = b
    /\ loaded = TRUE
    /\ predictor = PredictorObject
    /\ lifecycle = "Ready"
    /\ serving = FALSE
    /\ model_file = Pickled(b)

\* the service: the process has started and the global predictor is None.
\* An ASGI server that runs the lifespan protocol calls lifespan before it
\* answers any request; one that does not run it answers from the start.
Init ==
    /\ Blank
    /\ Quiet
    /\ age_in = Nan
    /\ bundle = BlankFields
    /\ loaded = FALSE
    /\ predictor = None
    /\ lifecycle = "Unloaded"
    /\ serving \in BOOLEAN
    /\ model_file = NotRead
    /\ op = "idle"

Next ==
    \/ LifespanDownload
    \/ LifespanDownloadRaises
    \/ LifespanLoad
    \/ Receive
    \/ Predict
    \/ ReceiveBatch
    \/ PredictBatch
    \/ Health
    \/ Respond

Spec == Init /\ [][Next]_vars

\* convert_credit_age applied to each of AgeInputs
InitAge ==
    /\ Blank
    /\ Quiet
    /\ Constructed(TrainedBundle)
    /\ op = "age_input"
    /\ age_in \in AgeInputs

NextAge == ConvertCreditAge

SpecAge == InitAge /\ [][NextAge]_vars

\* predictor.preprocess applied to each of Frames, under each of Bundles
InitNorm ==
    /\ \E b \in NormBundles : Constructed(b)
    /\ Quiet
    /\ op = "frame_input"
    /\ data_frame \in Frames
    /\ age_in = Nan /\ age_out = Nan
    /\ df_age = NotRun /\ df_neg = NotRun /\ df_fill = NotRun
    /\ processed_data = NotRun
    /\ request = NoRequest /\ response = NoResponse /\ handed = NotRun
    /\ workers = <<>> /\ batch_response = NoBatchResponse
    /\ health = NoHealth /\ returned = NothingReturned

NextNorm == Preprocess \/ PreprocessAgain

SpecNorm == InitNorm /\ [][NextNorm]_vars

\* the predictor used directly: constructed from complete artifacts, then any
\* of its public methods called in any order
InitFacade ==
    /\ Blank
    /\ Quiet
    /\ age_in = Nan
    /\ \E b \in CompleteArtifacts : Constructed(b)
    /\ op = "constructed"

NextFacade ==
    \/ FacadeLoadModel
    \/ FacadePredictSingle
    \/ FacadePredictBatch
    \/ FacadeGetModelInfo
    \/ FacadeIsLoaded

SpecFacade == InitFacade /\ [][NextFacade]_vars

\* download_model called once, with or without a file at MODEL_PATH, under
\* each value of MODEL_URL
InitDownload ==
    /\ Blank
    /\ age_in = Nan
    /\ calls = <<>>
    /\ bundle = BlankFields
    /\ loaded = FALSE
    /\ predictor = None
    /\ lifecycle = "Unloaded"
    /\ serving = FALSE
    /\ model_file = NotRead
    /\ op = "download_model"
    /\ \E file \in {NoFile, ExistingFile}, url \in ModelUrls :
          download = [NoDownload EXCEPT !.pc = "called", !.file = file,
                                        !.file_at_call = file, !.url = url]

NextDownload ==
    \/ DownloadCheckExists
    \/ DownloadCheckUrl
    \/ DownloadRequest
    \/ DownloadOpen
    \/ DownloadWrite
    \/ DownloadExcept

SpecDownload == InitDownload /\ [][NextDownload]_vars

\* MaxCalls prediction calls made on one constructed predictor, their
\* statements interleaved in every way
InitCalls ==
    /\ Blank
    /\ age_in = Nan
    /\ download = NoDownload
    /\ \E b \in CallBundles : Constructed(b)
    /\ op = "constructed"
    /\ calls \in [1..MaxCalls -> CallInputs]

NextCalls == \E i \in 1..MaxCalls : CallStep(i)

SpecCalls == InitCalls /\ [][NextCalls]_vars

----------------------------------------------------------------------------
(* Properties of convert_credit_age, under SpecAge *)

Infix_y == <<" ", "y", ".", " ">>

\* s is X ++ " y. " ++ Y ++ " m."
SplitsAs(s, X, Y) == s = X \o Infix_y \o Y \o Suffix_m

\* the ways to cut s into a prefix X and, four characters on, a Y that ends
\* three characters before the end of s
AgeCuts(s) ==
    {<<SubSeq(s, 1, i), SubSeq(s, i + 5, Len(s) - 3)>> : i \in 1..Len(s)}

IsIntegerLiteral(t) ==
    \/ IsDigits(t)
    \/ Len(t) > 1 /\ t[1] \in {"+", "-"} /\ IsDigits(Tail(t))

\* s has the form "<N> y. <M> m.", N and M integers
OfAgeForm(s) ==
    \E c \in AgeCuts(s) :
        IsIntegerLiteral(c[1]) /\ IsIntegerLiteral(c[2]) /\ SplitsAs(s, c[1], c[2])

\* C3: a well-formed credit-age string "X y. Y m.", X and Y non-negative
\* integers, is converted to exactly X*12 + Y.
C3_WellFormedAgeConverted ==
    (op = "convert_credit_age" /\ IsStr(age_in)) =>
        \A c \in AgeCuts(age_in.s) :
            (IsDigits(c[1]) /\ IsDigits(c[2]) /\ SplitsAs(age_in.s, c[1], c[2]))
                => age_out = Num(DigitsValue(c[1]) * 12 + DigitsValue(c[2]))

\* "20 y. 7 m." has been converted, to 247
C3_Witness ==
    /\ op = "convert_credit_age"
    /\ age_in = Str(<<"2", "0", " ", "y", ".", " ", "7", " ", "m", ".">>)
    /\ age_out = Num(247)

\* C4: a credit-age value that is missing, or a string not of the form
\* "<N> y. <M> m.", is converted to a missing value, never to a number.
C4_MalformedAgeIsMissing ==
    (op = "convert_credit_age"
        /\ (isna(age_in) \/ (IsStr(age_in) /\ ~OfAgeForm(age_in.s))))
        => isna(age_out)

----------------------------------------------------------------------------
(* Properties of the normalizer, under SpecNorm *)

\* the statistic the bundle stores for filling col, if it stores one
HasStoredFill(b, col) ==
    IF col \in Range(b.numerical_cols_outliers) THEN col \in DOMAIN b.train_medians
    ELSE col \in DOMAIN b.train_means

StoredFill(b, col) ==
    IF col \in Range(b.numerical_cols_outliers) THEN b.train_medians[col]
    ELSE b.train_means[col]

\* numeric feature col is missing in record i of the input frame: the field
\* itself, or for the derived credit_age_months_numeric the credit-age string
MissingInInput(i, col) ==
    IF col = "credit_age_months_numeric"
    THEN isna(data_frame.rows[i]["credit_age_months"])
    ELSE col \in DOMAIN data_frame.rows[i] /\ isna(data_frame.rows[i][col])

\* the value of col in record i after normalization is v: after the fill,
\* and in the projected frame when col is one of its columns
NormalizedTo(i, col, v) ==
    /\ df_fill.df.rows[i][col] = v
    /\ (processed_data.ok /\ col \in Range(processed_data.df.columns))
        => processed_data.df.rows[i][col] = v

\* C1: a numeric feature missing in an input record is, after normalization,
\* the bundle's stored training median when the column is one of the
\* outlier columns and the stored training mean otherwise; so is
\* credit_age_months_numeric when the credit-age string was missing.
C1_MissingNumericImputed ==
    (op = "preprocess" /\ df_fill.ok) =>
        \A col \in Range(bundle.numerical_features) :
            \A i \in 1..NRows(data_frame) :
                (MissingInInput(i, col) /\ HasStoredFill(bundle, col))
                    => NormalizedTo(i, col, StoredFill(bundle, col))

\* a record without worker_age, estimated_annual_income and credit-age string
\* was normalized: worker_age and credit_age_months_numeric, outlier columns
\* here, hold their stored medians, and estimated_annual_income, not an
\* outlier column, its stored mean
C1_Witness ==
    /\ op = "preprocess" /\ processed_data.ok
    /\ {"worker_age", "credit_age_months_numeric"}
           \subseteq Range(bundle.numerical_cols_outliers)
    /\ "estimated_annual_income" \notin Range(bundle.numerical_cols_outliers)
    /\ \A c \in {"worker_age", "credit_age_months_numeric", "estimated_annual_income"} :
           c \in Range(bundle.numerical_features) /\ HasStoredFill(bundle, c)
    /\ \E i \in 1..NRows(data_frame) :
        /\ isna(data_frame.rows[i]["worker_age"])
        /\ isna(data_frame.rows[i]["estimated_annual_income"])
        /\ isna(data_frame.rows[i]["credit_age_months"])
        /\ processed_data.df.rows[i]["worker_age"] = bundle.train_medians["worker_age"]
        /\ processed_data.df.rows[i]["worker_age"] # bundle.train_means["worker_age"]
        /\ processed_data.df.rows[i]["credit_age_months_numeric"]
               = bundle.train_medians["credit_age_months_numeric"]
        /\ processed_data.df.rows[i]["estimated_annual_income"]
               = bundle.train_means["estimated_annual_income"]
        /\ processed_data.df.rows[i]["estimated_annual_income"]
               # bundle.train_medians["estimated_annual_income"]

\* C2: the normalized values of a record are the same whatever other records
\* are in the frame with it: they are those of the record normalized alone.
C2_FillIndependentOfBatch ==
    (op = "preprocess" /\ df_fill.ok) =>
        \A i \in 1..NRows(data_frame) :
            df_fill.df.rows[i]
                = preprocess_steps(bundle, DataFrame(<<data_frame.rows[i]>>)).fill.df.rows[1]

\* C7: fix_negative_values changes nothing but negative numbers of
\* num_savings_accounts and avg_loan_delay_days, which become 0; every other
\* cell, a negative end_of_month_balance too, is as it was.
C7_OnlyDesignatedClamped ==
    (op = "preprocess" /\ df_neg.ok) =>
        /\ df_neg.df.columns = df_age.df.columns
        /\ NRows(df_neg.df) = NRows(df_age.df)
        /\ \A i \in 1..NRows(df_age.df) :
            /\ DOMAIN df_neg.df.rows[i] = DOMAIN df_age.df.rows[i]
            /\ \A c \in DOMAIN df_age.df.rows[i] :
                LET v == df_age.df.rows[i][c]
                IN  df_neg.df.rows[i][c] =
                        IF c \in {"num_savings_accounts", "avg_loan_delay_days"}
                           /\ IsNum(v) /\ RatLess(v, Num(0))
                        THEN Num(0) ELSE v

\* a record with -1 savings accounts, a delay of -3.5 days and a balance of
\* -100 went through: the first two are 0 and the balance is still -100
C7_Witness ==
    /\ op = "preprocess" /\ df_neg.ok
    /\ \E i \in 1..NRows(df_age.df) :
        /\ df_age.df.rows[i]["num_savings_accounts"] = Num(-1)
        /\ df_age.df.rows[i]["avg_loan_delay_days"] = Rat(-7, 2)
        /\ df_age.df.rows[i]["end_of_month_balance"] = Num(-100)
        /\ df_neg.df.rows[i]["num_savings_accounts"] = Num(0)
        /\ df_neg.df.rows[i]["avg_loan_delay_days"] = Num(0)
        /\ df_neg.df.rows[i]["end_of_month_balance"] = Num(-100)

\* C9: a categorical feature missing in an input record is "Unknown" after
\* normalization, and one that is present keeps its value.
C9_CategoricalUnknown ==
    (op = "preprocess" /\ df_fill.ok) =>
        \A col \in Range(bundle.categorical_features) :
            \A i \in 1..NRows(data_frame) :
                col \in DOMAIN data_frame.rows[i] =>
                    NormalizedTo(i, col,
                                 IF isna(data_frame.rows[i][col]) THEN Str(Unknown)
                                 ELSE data_frame.rows[i][col])

\* a frame of a record without job_sector and a record with one was
\* normalized: the first holds "Unknown", the second its own value
C9_Witness ==
    /\ op = "preprocess" /\ processed_data.ok
    /\ "job_sector" \in Range(bundle.categorical_features)
    /\ "job_sector" \in Range(bundle.feature_names)
    /\ \E i, j \in 1..NRows(data_frame) :
        /\ isna(data_frame.rows[i]["job_sector"])
        /\ processed_data.df.rows[i]["job_sector"] = Str(Unknown)
        /\ ~isna(data_frame.rows[j]["job_sector"])
        /\ processed_data.df.rows[j]["job_sector"] = data_frame.rows[j]["job_sector"]

NoMissing(df) ==
    \A i \in 1..NRows(df) : \A c \in DOMAIN df.rows[i] : ~isna(df.rows[i][c])

\* C10: preprocess applied to a frame that is already normalized (its
\* columns feature_names, no value missing) succeeds and returns it unchanged.
C10_Idempotent ==
    (op = "preprocess_again"
        /\ data_frame.columns = bundle.feature_names /\ NoMissing(data_frame))
        => (processed_data.ok /\ processed_data.df = data_frame)

----------------------------------------------------------------------------
(* Properties of the /predict operation, under Spec *)

\* C5: whenever normalization succeeds, the frame handed to the fitted
\* transformer has exactly the columns of feature_names, in that order, and
\* none of its values is missing.
C5_HandedFrameComplete ==
    handed.ok =>
        /\ handed.df.columns = bundle.feature_names
        /\ \A i \in 1..NRows(handed.df) :
            /\ DOMAIN handed.df.rows[i] = Range(bundle.feature_names)
            /\ \A c \in DOMAIN handed.df.rows[i] : ~isna(handed.df.rows[i][c])

\* C6: when a column named in feature_names is absent from the frame after
\* the conversion, the clamp and the fill, the prediction ends in an error:
\* the transformer is not called and no prediction is returned.
C6_AbsentColumnAborts ==
    (op = "response" /\ df_fill.ok
        /\ \E c \in Range(bundle.feature_names) : c \notin Range(df_fill.df.columns))
        => /\ ~processed_data.ok
           /\ handed = NotRun
           /\ response.status = 500
           /\ ~response.predicted

\* a valid record was posted to a predictor whose feature_names names
\* financial_stress_level; the answer is the error
C6_Witness ==
    /\ op = "response"
    /\ WorkerFeatures_valid(request)
    /\ df_fill.ok
    /\ "financial_stress_level" \in Range(bundle.feature_names)
    /\ "financial_stress_level" \notin Range(df_fill.df.columns)
    /\ processed_data = KeyError("financial_stress_level")
    /\ response.status = 500
    /\ handed = NotRun

\* C8: a record whose end_of_month_balance is negative, its other fields
\* valid, passes input validation and reaches the prediction with the
\* balance as it was sent.
C8_NegativeBalanceAccepted ==
    (op = "response"
        /\ IsNum(request["end_of_month_balance"])
        /\ RatLess(request["end_of_month_balance"], Num(0))
        /\ \A f \in DOMAIN request :
               f # "end_of_month_balance" => field_valid(f, request[f]))
        => /\ response.status # 422
           /\ NRows(data_frame) = 1
           /\ data_frame.rows[1]["end_of_month_balance"] = request["end_of_month_balance"]

----------------------------------------------------------------------------
(* Properties of the batch prediction, under Spec *)

\* the batch request was answered with the predictions
BatchAnswered == op = "batch_response" /\ batch_response.status = 200

\* C11: each prediction of a batch (worker identifier, label and
\* probabilities) is the one /predict gives for that record posted alone.
C11_BatchEqualsSingle ==
    BatchAnswered =>
        /\ Len(batch_response.predictions) = Len(workers)
        /\ \A i \in 1..Len(workers) :
            batch_response.predictions[i]
                = main_predict(predictor, bundle, loaded, WorkerFeatures(workers[i]))

\* row i of the normalized frame, as a frame of its own
RowFrame(df, i) == [columns |-> df.columns, rows |-> <<df.rows[i]>>]

\* row i of the normalized frame comes from record rec: the features that rec
\* holds and that no step rewrites are in the row as they are in rec
RowOf(row, rec) ==
    \A c \in DOMAIN row :
        (c \in DOMAIN rec /\ ~isna(rec[c]) /\ c \notin ClippedColumns)
            => row[c] = rec[c]

\* C12: a successful batch prediction over n records returns n results and
\* total_processed = n; the i-th result carries the i-th record's worker
\* identifier and is the classifier's output for the i-th row, which is the
\* normalized i-th record.
C12_BatchOneToOne ==
    BatchAnswered =>
        /\ Len(batch_response.predictions) = Len(workers)
        /\ batch_response.total_processed = Len(workers)
        /\ handed.ok /\ NRows(handed.df) = Len(workers)
        /\ \A i \in 1..Len(workers) :
            LET e == infer(bundle, RowFrame(handed.df, i))
                classes == bundle.label_encoder.classes_
            IN  /\ RowOf(handed.df.rows[i], WorkerFeatures(workers[i]))
                /\ batch_response.predictions[i].worker_id = workers[i]["worker_id"]
                /\ batch_response.predictions[i].predicted_stress_level
                       = classes[e.y[1] + 1]
                /\ batch_response.predictions[i].prediction_probabilities
                       = [j \in 1..Len(classes) |-> <<classes[j], e.P[1][j]>>]

\* a batch of two records with different worker identifiers was answered,
\* with different labels for the two
C12_Witness ==
    /\ BatchAnswered
    /\ Len(workers) = 2
    /\ workers[1]["worker_id"] # workers[2]["worker_id"]
    /\ batch_response.total_processed = 2
    /\ batch_response.predictions[1].worker_id = workers[1]["worker_id"]
    /\ batch_response.predictions[2].worker_id = workers[2]["worker_id"]
    /\ batch_response.predictions[1].predicted_stress_level
           # batch_response.predictions[2].predicted_stress_level

\* C13: when normalization of a batch fails, the batch call fails as a whole
\* and returns no result; and no answer holds results for only some of the
\* records.
C13_BatchFailsWhole ==
    op = "batch_response" =>
        /\ (data_frame # EmptyFrame /\ ~processed_data.ok)
              => /\ batch_response.status = 500
                 /\ batch_response.predictions = <<>>
                 /\ batch_response.total_processed = 0
                 /\ handed = NotRun
        /\ Len(batch_response.predictions) \in {0, Len(workers)}
        /\ batch_response.status # 200 => batch_response.predictions = <<>>

\* a batch of two valid records was posted to a predictor whose feature_names
\* names a column the frame does not have: the answer is the error, without
\* predictions
C13_Witness ==
    /\ op = "batch_response"
    /\ Len(workers) = 2
    /\ \A i \in 1..2 : WorkerFeatures_valid(workers[i])
    /\ NRows(data_frame) = 2
    /\ processed_data = KeyError("financial_stress_level")
    /\ batch_response.status = 500
    /\ batch_response.predictions = <<>>

----------------------------------------------------------------------------
(* Properties of the load and of the lifecycle, under Spec *)

\* the file holds artifacts with every key load_model reads
ArtifactsComplete(file) ==
    file.file = "pickle" /\ Range(ArtifactKeys) \subseteq DOMAIN file.artifacts

\* C14: is_loaded() is true only after a load that found the file and every
\* key in it; a load that finds no file, an unreadable one or one lacking a
\* key raises and leaves is_loaded() false, and no predictor is assigned.
C14_LoadedOnlyIfComplete ==
    /\ is_loaded(loaded) => (lifecycle = "Ready" /\ ArtifactsComplete(model_file))
    /\ (lifecycle \in {"Ready", "Failed"} /\ ~ArtifactsComplete(model_file))
          => /\ ~is_loaded(loaded)
             /\ lifecycle = "Failed"
             /\ predictor = None
    /\ lifecycle = "Ready"
          => /\ is_loaded(loaded)
             /\ bundle = model_file.artifacts

\* a load found artifacts without train_means: it raised after it had
\* assigned the fields read before, and is_loaded() is false
C14_Witness ==
    /\ lifecycle = "Failed"
    /\ model_file.file = "pickle"
    /\ "train_means" \notin DOMAIN model_file.artifacts
    /\ bundle["train_medians"] = TrainMedians
    /\ bundle["train_means"] = None
    /\ ~is_loaded(loaded)

\* C15 as stated: every request to /predict or /predict_batch answered while
\* no bundle has been loaded gets the NotReady answer, 503 "Model not loaded".
C15_EveryRequestNotReady ==
    ~is_loaded(loaded) =>
        /\ op = "response" =>
              /\ response.status = 503
              /\ response.detail = "Model not loaded"
        /\ op = "batch_response" =>
              /\ batch_response.status = 503
              /\ batch_response.detail = "Model not loaded"

\* C15: while no bundle has been loaded there is no predictor object, and
\* /predict and /predict_batch answer 503 "Model not loaded" to every body
\* that passes validation; whatever the body, the answer is no prediction,
\* the predictor's steps have not run, and a 500 is the one of a validation
\* answer that could not be rendered, never the failure of a call on None.
C15_NotReadyOnUnloaded ==
    ~is_loaded(loaded) =>
        /\ predictor = None
        /\ op = "response" =>
              /\ WorkerFeatures_valid(request) => response.status = 503
              /\ response.status \in {503, 422, 500}
              /\ response.status = 503 => response.detail = "Model not loaded"
              /\ response.status = 500 => response.detail = "Internal server error"
              /\ ~response.predicted
              /\ handed = NotRun
        /\ op = "batch_response" =>
              /\ BatchPredictionRequest_valid(workers) => batch_response.status = 503
              /\ batch_response.status \in {503, 422, 500}
              /\ batch_response.status = 503
                     => batch_response.detail = "Model not loaded"
              /\ batch_response.status = 500
                     => batch_response.detail = "Internal server error"
              /\ batch_response.predictions = <<>>
              /\ handed = NotRun

\* a valid record was posted while the global predictor was None: 503
C15_Witness ==
    /\ op = "response"
    /\ predictor = None
    /\ request = ExampleRecord
    /\ response.status = 503
    /\ response.detail = "Model not loaded"

\* C16: the facade goes from Unloaded to Loading and from Loading to Ready or
\* to Failed, and makes no other transition: Failed is left by no step, and
\* Ready is entered only by a load that succeeded.
C16_LifecycleTransitions ==
    [][ /\ lifecycle' # lifecycle =>
              \/ lifecycle = "Unloaded" /\ lifecycle' = "Loading"
              \/ lifecycle = "Loading" /\ lifecycle' \in {"Ready", "Failed"}
        /\ (lifecycle' = "Ready" /\ lifecycle # "Ready") =>
              /\ FinancialStressPredictor(model_file).ok
              /\ is_loaded(loaded')
        /\ lifecycle = "Failed" =>
              /\ lifecycle' = "Failed"
              /\ ~is_loaded(loaded') /\ predictor' = None ]_vars

\* a load has failed, on an absent file
C16_Witness ==
    /\ lifecycle = "Failed"
    /\ model_file = Absent
    /\ predictor = None
    /\ ~is_loaded(loaded)

\* C18: when the load at startup fails, the application keeps running and
\* answers requests.
C18_FailedStartKeepsServing == lifecycle = "Failed" => serving

----------------------------------------------------------------------------
(* Properties of the prediction results, under Spec *)

\* C19: the keys of the probability mapping of every prediction are the
\* label encoder's classes_, each once, in the order of classes_.
C19_ProbabilityKeys ==
    /\ (op = "response" /\ response.status = 200)
          => keys(response.prediction_probabilities) = bundle.label_encoder.classes_
    /\ BatchAnswered
          => \A i \in 1..Len(batch_response.predictions) :
                keys(batch_response.predictions[i].prediction_probabilities)
                    = bundle.label_encoder.classes_

\* a prediction was returned whose probabilities are not in descending order
C19_Witness ==
    /\ op = "response" /\ response.status = 200
    /\ Len(response.prediction_probabilities) = 3
    /\ RatLess(response.prediction_probabilities[1][2],
               response.prediction_probabilities[2][2])
    /\ keys(response.prediction_probabilities) = bundle.label_encoder.classes_

\* the label is classes_[y], one of the classes and one of the keys
Decoded(label, probabilities, y) ==
    /\ label = bundle.label_encoder.classes_[y + 1]
    /\ label \in Range(bundle.label_encoder.classes_)
    /\ label \in Range(keys(probabilities))

\* C20: the predicted label of every prediction is classes_[y], y the class
\* index the classifier predicted for the row; it is one of the label
\* encoder's classes and one of the keys of the probability mapping.
C20_LabelDecoded ==
    /\ (op = "response" /\ response.status = 200)
          => Decoded(response.predicted_stress_level,
                     response.prediction_probabilities,
                     infer(bundle, handed.df).y[1])
    /\ BatchAnswered
          => \A i \in 1..Len(batch_response.predictions) :
                Decoded(batch_response.predictions[i].predicted_stress_level,
                        batch_response.predictions[i].prediction_probabilities,
                        infer(bundle, handed.df).y[i])

\* the classifier predicted class 1 for the example record, and the label
\* returned is "Low"
C20_Witness ==
    /\ op = "response" /\ response.status = 200
    /\ request = ExampleRecord
    /\ infer(bundle, handed.df).y[1] = 1
    /\ response.predicted_stress_level = Str(<<"L", "o", "w">>)

----------------------------------------------------------------------------
(* Properties of the predictor used directly, under SpecFacade *)

\* C17: once loaded, no operation on the predictor changes a component of
\* the bundle it holds.
C17_BundleReadOnly == [][is_loaded(loaded) => bundle' = bundle]_vars

----------------------------------------------------------------------------
(* Properties of the request schema and of worker_id, under Spec *)

\* v is a number outside the range WorkerFeatures declares for field f
OutOfRange(f, v) ==
    /\ FieldType(f) \in {"float", "int"}
    /\ IsNum(v)
    /\ \/ f \in FieldsWithGe /\ RatLess(v, Num(FieldGe(f)))
       \/ f \in FieldsWithLe /\ RatLess(Num(FieldLe(f)), v)

\* C21: a record holding a number outside its declared range is still
\* predicted, the value handled as a missing one: it is not refused, and
\* after the fill the field holds the bundle's stored statistic.
C21_OutOfRangeImputed ==
    (op = "response" /\ predictor # None /\ is_loaded(loaded)
        /\ \E f \in DOMAIN request : OutOfRange(f, request[f]))
        => /\ response.status # 422
           /\ df_fill.ok
           /\ \A f \in DOMAIN request :
                 (OutOfRange(f, request[f])
                     /\ f \in Range(bundle.numerical_features)
                     /\ HasStoredFill(bundle, f))
                     => df_fill.df.rows[1][f] = StoredFill(bundle, f)

\* C22: worker_id is no column of the frame handed to the transformer, and
\* every prediction answered carries the worker_id of the record it answers,
\* null when the record has none.
C22_WorkerIdKeptApart ==
    /\ handed.ok =>
          /\ "worker_id" \notin Range(handed.df.columns)
          /\ \A i \in 1..NRows(handed.df) : "worker_id" \notin DOMAIN handed.df.rows[i]
    /\ (op = "response" /\ response.status = 200)
          => response.worker_id = request["worker_id"]
    /\ BatchAnswered
          => /\ Len(batch_response.predictions) = Len(workers)
             /\ \A i \in 1..Len(workers) :
                   batch_response.predictions[i].worker_id = workers[i]["worker_id"]

\* a batch of a record with a worker_id and a record without one was
\* answered: the first prediction carries the identifier, the second null,
\* and the frame handed on, made from a frame with the column, has none
C22_Witness ==
    /\ BatchAnswered
    /\ Len(workers) = 2
    /\ workers[1]["worker_id"] = ExampleRecord["worker_id"]
    /\ isna(workers[2]["worker_id"])
    /\ "worker_id" \in Range(data_frame.columns)
    /\ handed.ok /\ "worker_id" \notin Range(handed.df.columns)
    /\ batch_response.predictions[1].worker_id = ExampleRecord["worker_id"]
    /\ isna(batch_response.predictions[2].worker_id)

----------------------------------------------------------------------------
(* Further properties of the normalizer, under SpecNorm *)

\* the fields a step of the normalizer may rewrite or remove
RewrittenFields ==
    {"worker_id", "credit_age_months", "num_savings_accounts", "avg_loan_delay_days"}

\* C26: a value that is present in an input record, in a field other than
\* worker_id, credit_age_months, num_savings_accounts and avg_loan_delay_days,
\* is in the normalized record unchanged.
C26_PresentValuesKept ==
    (op = "preprocess" /\ df_fill.ok) =>
        \A i \in 1..NRows(data_frame) :
            \A c \in (DOMAIN data_frame.rows[i]) \ RewrittenFields :
                ~isna(data_frame.rows[i][c])
                    => NormalizedTo(i, c, data_frame.rows[i][c])

\* the example record was normalized in a frame with a record of missing
\* values only: the fill ran on every column, and the example's age, balance
\* and job sector are as they were sent
C26_Witness ==
    /\ op = "preprocess" /\ processed_data.ok
    /\ NRows(data_frame) = 2
    /\ data_frame.rows[2] = EmptyRecord
    /\ \A c \in {"worker_age", "end_of_month_balance", "job_sector"} :
          /\ c \in Range(processed_data.df.columns)
          /\ ~isna(data_frame.rows[1][c])
          /\ processed_data.df.rows[1][c] = data_frame.rows[1][c]
          /\ ~isna(processed_data.df.rows[2][c])
          /\ processed_data.df.rows[2][c] # data_frame.rows[1][c]

\* no cell of the clipped columns is a negative number after the fill
NoNegativeClipped ==
    \A i \in 1..NRows(df_fill.df) :
        \A c \in ClippedColumns \cap DOMAIN df_fill.df.rows[i] :
            /\ ~(IsNum(df_fill.df.rows[i][c]) /\ RatLess(df_fill.df.rows[i][c], Num(0)))
            /\ (processed_data.ok /\ c \in Range(processed_data.df.columns))
                  => processed_data.df.rows[i][c] = df_fill.df.rows[i][c]

\* C27, as stated: for every record and every bundle, num_savings_accounts
\* and avg_loan_delay_days are not negative after normalization.
C27_ClippedNeverNegative ==
    (op = "preprocess" /\ df_fill.ok) => NoNegativeClipped

\* the statistic the bundle stores for filling each clipped column, when it
\* stores one, is not negative
StoredFillsNotNegative(b) ==
    \A c \in ClippedColumns :
        HasStoredFill(b, c) => ~RatLess(StoredFill(b, c), Num(0))

\* C27, amended: for every record, and every bundle whose stored fill
\* statistics of num_savings_accounts and avg_loan_delay_days are not
\* negative, the two are not negative after normalization, filled or not.
C27_ClippedNotNegativeGivenStatistics ==
    (op = "preprocess" /\ df_fill.ok /\ StoredFillsNotNegative(bundle))
        => NoNegativeClipped

\* a record with -1 savings accounts and a delay of -3.5 days was normalized
\* together with a record lacking both: the first holds 0 and 0, the second
\* the stored statistics
C27_Witness ==
    /\ op = "preprocess" /\ processed_data.ok
    /\ StoredFillsNotNegative(bundle)
    /\ NRows(data_frame) = 2
    /\ data_frame.rows[1]["num_savings_accounts"] = Num(-1)
    /\ data_frame.rows[1]["avg_loan_delay_days"] = Rat(-7, 2)
    /\ \A c \in ClippedColumns :
          /\ isna(data_frame.rows[2][c])
          /\ c \in Range(bundle.numerical_features) /\ HasStoredFill(bundle, c)
          /\ processed_data.df.rows[1][c] = Num(0)
          /\ processed_data.df.rows[2][c] = StoredFill(bundle, c)

----------------------------------------------------------------------------
(* Further properties of the predictor used directly, under SpecFacade *)

\* C25: whenever is_loaded() is true after a call, the nine fields are those
\* of one successful load: the fields held before the call, or the artifacts
\* of the complete file the call has just loaded; a load that fails leaves no
\* loaded predictor with fields of two files.
C25_FieldsFromOneLoad ==
    [][ is_loaded(loaded') =>
            \/ is_loaded(loaded) /\ bundle' = bundle
            \/ ArtifactsComplete(model_file') /\ bundle' = model_file'.artifacts ]_vars

----------------------------------------------------------------------------
(* Properties of download_model, under SpecDownload *)

\* C28: a file that was at the model path when download_model was called is
\* as it was at every step of the call, no request is made, and the call
\* returns True; and when the call returns False after it has made its
\* request, no file is at the model path.
C28_DownloadKeepsExisting ==
    /\ path_exists(download.file_at_call) =>
          /\ download.file = download.file_at_call
          /\ download.requested = <<>>
          /\ download.pc \in {"called", "returned"}
          /\ download.pc = "returned" => download.result = "True"
    /\ (download.pc = "returned" /\ download.result = "False"
           /\ download.requested # <<>>)
          => ~path_exists(download.file)

\* a download broke off after a chunk had been written: False was returned
\* and nothing is at the model path
C28_Witness ==
    /\ download.pc = "returned" /\ download.result = "False"
    /\ Len(download.requested) = 1
    /\ download.server.answer = "ok" /\ download.server.breaks
    /\ download.written > 0
    /\ download.file = NoFile

----------------------------------------------------------------------------
(* Properties of interleaved prediction calls, under SpecCalls *)

\* the call has returned or raised
CallDone(c) == c.pc > Len(CallSteps)

\* what the call returns when it runs with no other call on the predictor as
\* it was loaded
AloneResult(c) ==
    IF c.kind = "single"
    THEN predict_single(model_file.artifacts, TRUE, c.posted[1])
    ELSE predict_batch(model_file.artifacts, TRUE, c.posted)

\* C23: under every interleaving of the calls, each call returns what it
\* returns when it runs alone, the records it was given are as the caller
\* gave them, and the predictor's fields are as they were loaded.
C23_CallsIndependent ==
    /\ bundle = model_file.artifacts
    /\ \A i \in 1..Len(calls) :
          /\ calls[i].features = calls[i].posted
          /\ CallDone(calls[i]) => calls[i].result = AloneResult(calls[i])

\* on a predictor without a worker_age statistic, a batch whose frame gives
\* the fallback 28 and a single record without worker_age have both run to
\* the end, with different outcomes: the batch predicted, the single one not
C23_Witness ==
    /\ "worker_age" \notin DOMAIN bundle.train_medians
    /\ Len(calls) >= 2
    /\ \E i, j \in 1..Len(calls) :
          /\ calls[i].kind = "batch" /\ calls[j].kind = "single"
          /\ isna(calls[j].posted[1]["worker_age"])
          /\ CallDone(calls[i]) /\ CallDone(calls[j])
          /\ calls[i].result.ok
          /\ ~calls[j].result.ok

\* the normalization steps among the steps a call has run
NormalizationSteps ==
    {"drop_worker_id", "credit_age", "fix_negative", "fill_missing", "reorder"}

NormalizationTrace(c) == SelectSeq(c.trace, LAMBDA name : name \in NormalizationSteps)

IsPrefix(p, q) == Len(p) <= Len(q) /\ p = SubSeq(q, 1, Len(p))

\* the number the spec gives each step: the removal of worker_id and the
\* reordering are both its step 4
StatedStepNumber(name) ==
    CASE name = "credit_age" -> 1
      [] name = "fix_negative" -> 2
      [] name = "fill_missing" -> 3
      [] name = "drop_worker_id" -> 4
      [] name = "reorder" -> 4

\* C24, as stated: in every call the steps run in the order conversion,
\* correction, imputation, then removal of worker_id and reordering: no step
\* runs before an earlier-numbered one.
C24_StepsInStatedOrder ==
    \A i \in 1..Len(calls) :
        LET t == NormalizationTrace(calls[i])
        IN  \A j, k \in 1..Len(t) :
                j < k => StatedStepNumber(t[j]) <= StatedStepNumber(t[k])

\* C24, amended: in every call worker_id is removed first, then the
\* credit-age conversion, the negative-value correction and the missing-value
\* imputation run in this order, and the reordering to feature_names last;
\* the imputation works on the converted column, the string column gone.
C24_StepsInCodeOrder ==
    \A i \in 1..Len(calls) :
        /\ IsPrefix(NormalizationTrace(calls[i]),
                    << "drop_worker_id", "credit_age", "fix_negative",
                       "fill_missing", "reorder" >>)
        /\ (calls[i].trace # <<>>
               /\ calls[i].trace[Len(calls[i].trace)] = "fill_missing")
              => /\ "credit_age_months_numeric" \in Range(calls[i].df.df.columns)
                 /\ "credit_age_months" \notin Range(calls[i].df.df.columns)
                 /\ "worker_id" \notin Range(calls[i].df.df.columns)
                 /\ \A r \in 1..NRows(calls[i].df.df) :
                       \A col \in ClippedColumns :
                           ~(IsNum(calls[i].df.df.rows[r][col])
                               /\ RatLess(calls[i].df.df.rows[r][col], Num(0)))

\* a call on the record with negative counts has run all its steps and
\* returned a prediction
C24_Witness ==
    \E i \in 1..Len(calls) :
        /\ calls[i].posted = <<MalformedRecord>>
        /\ calls[i].trace = CallSteps
        /\ NormalizationTrace(calls[i])
               = << "drop_worker_id", "credit_age", "fix_negative",
                    "fill_missing", "reorder" >>
        /\ calls[i].result.ok

====
